---- MODULE Spec2Model ----
(***************************************************************************)
(* rust_stock_tracker: the command handlers of src/src/lib.rs acting on    *)
(* the three files of the configuration directory (UserMap.JSON,           *)
(* StockMap.JSON, State.JSON).  One action is one invocation of the        *)
(* program through `run`.                                                  *)
(***************************************************************************)
EXTENDS Integers, Sequences, FiniteSets, TLC

VARIABLES
    users,    \* UserMap.JSON : None (no file) or Some(map username -> User)
    stocks,   \* StockMap.JSON: None (no file) or Some(map ticker -> Stock)
    state,    \* State.JSON   : None (no file) or Some(State)
    pre,      \* the three files as they were before the last command
    cmd,      \* the last command and its arguments
    result,   \* what the last command returned
    out,      \* the map keys the last command iterated for printing
    running,  \* TRUE from the start of an invocation until the process has exited
    inputs,   \* the arguments the invocations of this behaviour are drawn from
    bind,     \* the last argument list given to Config::new and what it returned
    console,  \* the console-mode loop of the running invocation, if it is in one
    procs     \* the invocations that run concurrently, each inside modify_hashmap

vars == <<users, stocks, state, pre, cmd, result, out, running, inputs, bind, console, procs>>

(***************************************************************************)
(* Bounds of the model                                                     *)
(***************************************************************************)
\* a holding is bought into again only while its quantity is at most MaxQty
MaxQty == 2
\* the verbs given to Config::new vary in case in their first MaxCaseLen letters
\* the lines on standard input of a console session are at most this many
MaxScript == 3
MaxCaseLen == 2

(***************************************************************************)
(* Option, maps, results                                                   *)
(***************************************************************************)
None == [some |-> FALSE]
Some(v) == [some |-> TRUE, val |-> v]

EmptyMap == [k \in {} |-> 0]
contains_key(m, k) == k \in DOMAIN m
insert(m, k, v) == [x \in (DOMAIN m) \cup {k} |-> IF x = k THEN v ELSE m[x]]
remove(m, k) == [x \in (DOMAIN m) \ {k} |-> m[x]]

Ok == [kind |-> "Ok", arg |-> ""]
Err(kind, arg) == [kind |-> kind, arg |-> arg]
Panic == [kind |-> "Panic", arg |-> "attempt to add with overflow"]

(***************************************************************************)
(* Strings: to_lowercase, trim                                             *)
(***************************************************************************)
UpperChars == "ABCDEFGHIJKLMNOPQRSTUVWXYZ"
LowerChars == "abcdefghijklmnopqrstuvwxyz"
Char(s, i) == SubSeq(s, i, i)

LowerChar(c) ==
    IF \E i \in 1..Len(UpperChars) : Char(UpperChars, i) = c
    THEN Char(LowerChars, CHOOSE i \in 1..Len(UpperChars) : Char(UpperChars, i) = c)
    ELSE c

RECURSIVE to_lowercase(_)
to_lowercase(s) ==
    IF Len(s) = 0 THEN s
    ELSE LowerChar(Char(s, 1)) \o to_lowercase(SubSeq(s, 2, Len(s)))

IsWhite(c) == c \in {" ", "\n", "\t", "\r"}

RECURSIVE trim(_)
trim(s) ==
    IF Len(s) = 0 THEN s
    ELSE IF IsWhite(Char(s, 1)) THEN trim(SubSeq(s, 2, Len(s)))
    ELSE IF IsWhite(Char(s, Len(s))) THEN trim(SubSeq(s, 1, Len(s) - 1))
    ELSE s

(***************************************************************************)
(* u32: a 32-bit unsigned integer kept as two 16-bit halves, so that the   *)
(* arithmetic keeps its width.                                             *)
(***************************************************************************)
Half == 65536
U32(hi, lo) == [hi |-> hi, lo |-> lo]
U32Zero == U32(0, 0)
U32Max == U32(Half - 1, Half - 1)
U32Small(n) == U32(0, n)
U32Positive(n) == n.hi > 0 \/ n.lo > 0
\* a + b without the width: hi may reach past 16 bits
U32WideAdd(a, b) ==
    LET lo == a.lo + b.lo
    IN  U32(a.hi + b.hi + (lo \div Half), lo % Half)
U32Overflows(a, b) == U32WideAdd(a, b).hi >= Half
U32WrappingAdd(a, b) ==
    LET w == U32WideAdd(a, b) IN U32(w.hi % Half, w.lo)

DigitChars == "0123456789"
IsDigit(c) == \E i \in 1..10 : Char(DigitChars, i) = c
DigitVal(c) == (CHOOSE i \in 1..10 : Char(DigitChars, i) = c) - 1

\* <u32 as FromStr>::from_str: an optional "+", then one or more decimal
\* digits, the value within 32 bits; anything else is an error (None).
RECURSIVE ParseU32Digits(_, _)
ParseU32Digits(s, acc) ==
    IF Len(s) = 0 THEN Some(acc)
    ELSE IF ~IsDigit(Char(s, 1)) THEN None
    ELSE LET lo == acc.lo * 10 + DigitVal(Char(s, 1))
             hi == acc.hi * 10 + (lo \div Half)
         IN  IF hi >= Half THEN None
             ELSE ParseU32Digits(SubSeq(s, 2, Len(s)), U32(hi, lo % Half))

ParseU32(s) ==
    LET body == IF Len(s) > 0 /\ Char(s, 1) = "+" THEN SubSeq(s, 2, Len(s)) ELSE s
    IN  IF Len(body) = 0 THEN None ELSE ParseU32Digits(body, U32Zero)

(***************************************************************************)
(* f64 values: <f64 as FromStr>::from_str on decimal literals              *)
(* (sign, digits, at most one point).  A value is num / 10^scale with no   *)
(* trailing fractional zero, so that "1.50" and "1.5" are the same value.  *)
(***************************************************************************)
F64(num, scale) == [num |-> num, scale |-> scale]
F64Zero == F64(0, 0)

RECURSIVE F64Normal(_)
F64Normal(v) ==
    IF v.scale > 0 /\ v.num % 10 = 0 THEN F64Normal(F64(v.num \div 10, v.scale - 1))
    ELSE v

\* digits seen so far in `acc`; `point` says whether the point was passed,
\* `any` whether a digit was seen
RECURSIVE ParseF64Digits(_, _, _, _)
ParseF64Digits(s, acc, point, any) ==
    IF Len(s) = 0 THEN (IF any THEN Some(F64Normal(acc)) ELSE None)
    ELSE LET c == Char(s, 1)
             rest == SubSeq(s, 2, Len(s))
         IN  IF c = "." THEN (IF point THEN None ELSE ParseF64Digits(rest, acc, TRUE, any))
             ELSE IF ~IsDigit(c) THEN None
             ELSE ParseF64Digits(rest,
                      F64(acc.num * 10 + DigitVal(c), acc.scale + (IF point THEN 1 ELSE 0)),
                      point, TRUE)

ParseF64(s) ==
    LET signed == Len(s) > 0 /\ Char(s, 1) \in {"+", "-"}
        body == IF signed THEN SubSeq(s, 2, Len(s)) ELSE s
        mag == ParseF64Digits(body, F64Zero, FALSE, FALSE)
    IN  IF ~mag.some THEN None
        ELSE IF signed /\ Char(s, 1) = "-" THEN Some(F64(0 - mag.val.num, mag.val.scale))
        ELSE mag

\* parse_or_err::<T>: the parsed value, or InputParseError(value, type)
parse_or_err_u32(s) ==
    LET p == ParseU32(s)
    IN  IF p.some THEN [ok |-> TRUE, val |-> p.val, err |-> Ok]
        ELSE [ok |-> FALSE, val |-> U32Zero, err |-> Err("InputParseError", "u32")]

parse_or_err_f64(s) ==
    LET p == ParseF64(s)
    IN  IF p.some THEN [ok |-> TRUE, val |-> p.val, err |-> Ok]
        ELSE [ok |-> FALSE, val |-> F64Zero, err |-> Err("InputParseError", "f64")]

(***************************************************************************)
(* Command (src/src/command.rs).  A command is the name of its variant.    *)
(***************************************************************************)
CommandOk(c) == [ok |-> TRUE, command |-> c, err |-> Ok]
CommandInvalid == [ok |-> FALSE, command |-> "", err |-> Err("CommandInvalidError", "")]

\* Command::new, the arms of the match on the lower-cased string
Command_match(l) ==
    IF l \in {"i", "init"} THEN CommandOk("Init")
    ELSE IF l \in {"co", "console"} THEN CommandOk("Console")
    ELSE IF l \in {"q", "quit", "exit"} THEN CommandOk("Exit")
    ELSE IF l \in {"li", "login"} THEN CommandOk("StateC(Login)")
    ELSE IF l \in {"lo", "logout"} THEN CommandOk("StateC(Logout)")
    ELSE IF l \in {"cu", "create-user"} THEN CommandOk("UserC(Create)")
    ELSE IF l \in {"du", "delete-user"} THEN CommandOk("UserC(Delete)")
    ELSE IF l \in {"eu", "edit-user"} THEN CommandOk("UserC(Edit)")
    ELSE IF l \in {"lu", "list-users"} THEN CommandOk("UserC(List)")
    ELSE IF l \in {"cs", "create-stock"} THEN CommandOk("StockC(Create)")
    ELSE IF l \in {"ds", "delete-stock"} THEN CommandOk("StockC(Delete)")
    ELSE IF l \in {"es", "edit-stock"} THEN CommandOk("StockC(Edit)")
    ELSE IF l \in {"ls", "list-stocks"} THEN CommandOk("StockC(List)")
    ELSE IF l \in {"bs", "buy-stock"} THEN CommandOk("PortfolioC(Buy)")
    ELSE IF l \in {"lp", "list-portfolio"} THEN CommandOk("PortfolioC(List)")
    ELSE CommandInvalid

\* Faulty variant of Command::new (`to_lowercase` left out).  C28 must tell
\* it from the code.
Command_new_case_sensitive(s) == Command_match(s)

Command_new(s) == Command_match(to_lowercase(s))

\* Command::num_args
num_args(c) ==
    CASE c \in {"Init", "Console", "Exit", "StateC(Logout)", "UserC(List)", "StockC(List)",
                "PortfolioC(List)"} -> 0
      [] c \in {"StateC(Login)", "UserC(Create)", "UserC(Delete)", "StockC(Create)",
                "StockC(Delete)"} -> 1
      [] c = "PortfolioC(Buy)" -> 2
      [] c \in {"UserC(Edit)", "StockC(Edit)"} -> 3

\* Faulty variant of Display for Command (the plural of list-users lost).
\* C27 must tell it from the code.
Command_fmt_list_user(c) ==
    CASE c = "Init" -> "init"
      [] c = "Console" -> "console"
      [] c = "Exit" -> "exit"
      [] c = "StateC(Login)" -> "login"
      [] c = "StateC(Logout)" -> "logout"
      [] c = "UserC(Create)" -> "create-user"
      [] c = "UserC(Delete)" -> "delete-user"
      [] c = "UserC(Edit)" -> "edit-user"
      [] c = "UserC(List)" -> "list-user"
      [] c = "StockC(Create)" -> "create-stock"
      [] c = "StockC(Delete)" -> "delete-stock"
      [] c = "StockC(Edit)" -> "edit-stock"
      [] c = "StockC(List)" -> "list-stocks"
      [] c = "PortfolioC(Buy)" -> "buy-stock"
      [] c = "PortfolioC(List)" -> "list-portfolio"

\* impl Display for Command
Command_fmt(c) ==
    CASE c = "Init" -> "init"
      [] c = "Console" -> "console"
      [] c = "Exit" -> "exit"
      [] c = "StateC(Login)" -> "login"
      [] c = "StateC(Logout)" -> "logout"
      [] c = "UserC(Create)" -> "create-user"
      [] c = "UserC(Delete)" -> "delete-user"
      [] c = "UserC(Edit)" -> "edit-user"
      [] c = "UserC(List)" -> "list-users"
      [] c = "StockC(Create)" -> "create-stock"
      [] c = "StockC(Delete)" -> "delete-stock"
      [] c = "StockC(Edit)" -> "edit-stock"
      [] c = "StockC(List)" -> "list-stocks"
      [] c = "PortfolioC(Buy)" -> "buy-stock"
      [] c = "PortfolioC(List)" -> "list-portfolio"

(***************************************************************************)
(* Config::new (src/src/lib.rs).  args is the argument list, the program   *)
(* name first; env is the environment: the value of                        *)
(* RUST_STOCK_TRACKER_CONFIGURATION_DIRECTORY ("" when unset) and the home *)
(* directory, if there is one.                                             *)
(***************************************************************************)
ConfigErr(e) == [ok |-> FALSE, err |-> e]

\* the configuration directory, None when it cannot be resolved
configuration_directory(env) ==
    IF env.var # "" THEN Some(env.var)
    ELSE IF env.home.some THEN Some(env.home.val \o "/.rust_stock_tracker")
    ELSE None

\* Faulty variant of Config::new (`<=` for `<` in the check of the
\* remainder).  C25 must tell it from the code.
Config_new_off_by_one(args, env) ==
    IF Len(args) < 2 THEN ConfigErr(Err("ConfigNoCommandError", ""))
    ELSE LET c == Command_new(args[2])
             remainder == SubSeq(args, 3, Len(args))
             dir == configuration_directory(env)
         IN  IF ~c.ok THEN ConfigErr(c.err)
             ELSE IF ~dir.some THEN ConfigErr(Err("ConfigHomeDirectoryNotFoundError", ""))
             ELSE IF Len(remainder) <= num_args(c.command)
             THEN ConfigErr(Err("ConfigArgumentsError", Command_fmt(c.command)))
             ELSE [ok |-> TRUE, command |-> c.command, remainder |-> remainder,
                   configuration_directory |-> dir.val, err |-> Ok]

\* Faulty variant of Config::new (the first `args.next()` left out: the
\* program name is taken for the command).  C26 must tell it from the code.
Config_new_keep_first(args, env) ==
    IF Len(args) < 1 THEN ConfigErr(Err("ConfigNoCommandError", ""))
    ELSE LET c == Command_new(args[1])
             remainder == SubSeq(args, 2, Len(args))
             dir == configuration_directory(env)
         IN  IF ~c.ok THEN ConfigErr(c.err)
             ELSE IF ~dir.some THEN ConfigErr(Err("ConfigHomeDirectoryNotFoundError", ""))
             ELSE IF Len(remainder) < num_args(c.command)
             THEN ConfigErr(Err("ConfigArgumentsError", Command_fmt(c.command)))
             ELSE [ok |-> TRUE, command |-> c.command, remainder |-> remainder,
                   configuration_directory |-> dir.val, err |-> Ok]

Config_new(args, env) ==
    IF Len(args) < 2 THEN ConfigErr(Err("ConfigNoCommandError", ""))
    ELSE LET c == Command_new(args[2])
             remainder == SubSeq(args, 3, Len(args))
             dir == configuration_directory(env)
         IN  IF ~c.ok THEN ConfigErr(c.err)
             ELSE IF ~dir.some THEN ConfigErr(Err("ConfigHomeDirectoryNotFoundError", ""))
             ELSE IF Len(remainder) < num_args(c.command)
             THEN ConfigErr(Err("ConfigArgumentsError", Command_fmt(c.command)))
             ELSE [ok |-> TRUE, command |-> c.command, remainder |-> remainder,
                   configuration_directory |-> dir.val, err |-> Ok]

(***************************************************************************)
(* Stock, StockUnit (src/src/stock.rs)                                     *)
(***************************************************************************)
Stock_new_from_ticker(ticker) ==
    [ticker |-> ticker, company_name |-> "company_name", value |-> F64Zero]

\* the field a property name selects, "" when the name is not recognized
Stock_get_property(s) ==
    LET l == to_lowercase(s)
    IN  IF l \in {"t", "ticker"} THEN "ticker"
        ELSE IF l \in {"cn", "company-name", "companyname"} THEN "company_name"
        ELSE IF l \in {"v", "value"} THEN "value"
        ELSE ""

\* Faulty variant of StockUnit::new (the unit holds Stock::new(), not the
\* stock given).  C19 must tell it from the code.
StockUnit_new_default_stock(stock, quantity) ==
    [stock |-> [ticker |-> "ticker", company_name |-> "company_name", value |-> F64Zero],
     quantity |-> quantity]

StockUnit_new(stock, quantity) == [stock |-> stock, quantity |-> quantity]

\* Faulty variant of StockUnit::add_stock (`=` for `+=`): the purchase
\* replaces the quantity held.  C6 must tell it from the code.
StockUnit_add_stock_replace(unit, quantity) ==
    IF U32Positive(quantity)
    THEN {[unit |-> [unit EXCEPT !.quantity = quantity], result |-> Ok]}
    ELSE {[unit |-> unit, result |-> Err("InvalidInputError", "")]}

\* StockUnit::add_stock: the possible outcomes.  `self.quantity += quantity`
\* past 32 bits panics in a build with overflow checks and wraps in a build
\* without them.
StockUnit_add_stock(unit, quantity) ==
    IF U32Positive(quantity)
    THEN IF U32Overflows(unit.quantity, quantity)
         THEN {[unit |-> [unit EXCEPT !.quantity = U32WrappingAdd(unit.quantity, quantity)],
                result |-> Ok],
               [unit |-> unit, result |-> Panic]}
         ELSE {[unit |-> [unit EXCEPT !.quantity = U32WrappingAdd(unit.quantity, quantity)],
                result |-> Ok]}
    ELSE {[unit |-> unit, result |-> Err("InvalidInputError", "")]}

(***************************************************************************)
(* User (src/src/user.rs)                                                  *)
(***************************************************************************)
\* User::new_from_username is called by create_user but is not among the
\* sources; it is taken to be User::new with the username set, as
\* Stock::new_from_ticker is Stock::new with the ticker set.
User_new_from_username(username) ==
    [username |-> username, first_name |-> "first_name", last_name |-> "last_name",
     middle_initial |-> "middle_initial", portfolio |-> None]

\* Faulty variant of User::get_property ("name" is taken for the first
\* name).  C36 must tell it from the code.
User_get_property_name_alias(s) ==
    LET l == to_lowercase(s)
    IN  IF l \in {"u", "username"} THEN "username"
        ELSE IF l \in {"fn", "first-name", "firstname", "name"} THEN "first_name"
        ELSE IF l \in {"ln", "last-name", "lastname"} THEN "last_name"
        ELSE IF l \in {"mi", "middle-initial", "middleinitial"} THEN "middle_initial"
        ELSE ""

User_get_property(s) ==
    LET l == to_lowercase(s)
    IN  IF l \in {"u", "username"} THEN "username"
        ELSE IF l \in {"fn", "first-name", "firstname"} THEN "first_name"
        ELSE IF l \in {"ln", "last-name", "lastname"} THEN "last_name"
        ELSE IF l \in {"mi", "middle-initial", "middleinitial"} THEN "middle_initial"
        ELSE ""

\* Faulty variant of User::add_stock_additional (the unit takes the stock
\* given as well as the quantity).  C37 must tell it from the code.
User_add_stock_additional_refresh(user, stock, qt) ==
    IF ~user.portfolio.some THEN {[user |-> user, result |-> Err("ImpossibleStateError", "")]}
    ELSE {[user |-> [user EXCEPT !.portfolio =
                        Some([user.portfolio.val EXCEPT ![stock.ticker] =
                                 [o.unit EXCEPT !.stock = stock]])],
           result |-> o.result]
          : o \in StockUnit_add_stock(user.portfolio.val[stock.ticker], qt)}

\* User::add_stock_additional: the ticker is already held
User_add_stock_additional(user, stock, qt) ==
    IF ~user.portfolio.some THEN {[user |-> user, result |-> Err("ImpossibleStateError", "")]}
    ELSE {[user |-> [user EXCEPT !.portfolio =
                        Some([user.portfolio.val EXCEPT ![stock.ticker] = o.unit])],
           result |-> o.result]
          : o \in StockUnit_add_stock(user.portfolio.val[stock.ticker], qt)}

\* Faulty variant of User::add_stock (a ticker not yet held starts a new
\* portfolio).  C38 must tell it from the code.
User_add_stock_fresh_portfolio(user, stock, qt) ==
    IF user.portfolio.some /\ contains_key(user.portfolio.val, stock.ticker)
    THEN User_add_stock_additional(user, stock, qt)
    ELSE {[user |-> [user EXCEPT !.portfolio =
                Some(insert(EmptyMap, stock.ticker, StockUnit_new(stock, qt)))],
           result |-> Ok]}

\* User::add_stock: the possible outcomes
User_add_stock(user, stock, qt) ==
    IF user.portfolio.some
    THEN IF ~contains_key(user.portfolio.val, stock.ticker)
         THEN {[user |-> [user EXCEPT !.portfolio =
                    Some(insert(user.portfolio.val, stock.ticker, StockUnit_new(stock, qt)))],
                result |-> Ok]}
         ELSE User_add_stock_additional(user, stock, qt)
    ELSE {[user |-> [user EXCEPT !.portfolio =
                Some(insert(EmptyMap, stock.ticker, StockUnit_new(stock, qt)))],
           result |-> Ok]}

(***************************************************************************)
(* Files and session state (src/src/lib.rs)                                *)
(***************************************************************************)
\* what a handler leaves behind: the three files, its result, what it listed
Outcome(u, s, st, r, o) == [users |-> u, stocks |-> s, state |-> st, result |-> r, out |-> o]

UserMapPath == "UserMap.JSON"
StockMapPath == "StockMap.JSON"

LoggedOut == [logged_in |-> FALSE, current_user |-> None]
LoggedIn(username) == [logged_in |-> TRUE, current_user |-> Some(username)]

\* Faulty variant of State::init (the defaults are returned but not
\* written).  C29 must tell it from the code.
State_init_no_persist(stfile) ==
    IF stfile.some THEN [file |-> stfile, st |-> stfile.val]
    ELSE [file |-> stfile, st |-> LoggedOut]

\* State::init: the state read from State.JSON, or the logged-out defaults
\* written to a new State.JSON.  `file` is State.JSON afterwards.
State_init(stfile) ==
    IF stfile.some THEN [file |-> stfile, st |-> stfile.val]
    ELSE [file |-> Some(LoggedOut), st |-> LoggedOut]

\* State::write: State.JSON after writing `st`
State_write(st) == Some(st)

State_valid_user(username, hashmap) == contains_key(hashmap, username)

\* State::set_user: the state written
State_set_user(username) == State_write(LoggedIn(username))

\* State::clear_user: the state written
State_clear_user == State_write(LoggedOut)

\* Faulty variant of State::try_set_user (`self.logged_in = true` left
\* out).  C5 must tell it from the code.
State_try_set_user_no_flag(stfile, username, hashmap) ==
    IF ~State_valid_user(username, hashmap)
    THEN [file |-> stfile, result |-> Err("StateInvalidUserError", username)]
    ELSE [file |-> State_write([logged_in |-> stfile.val.logged_in,
                                current_user |-> Some(username)]),
          result |-> Ok]

\* Faulty variant of State::try_set_user (a session that already has a user
\* keeps it).  C14 must tell it from the code.
State_try_set_user_keep_user(stfile, username, hashmap) ==
    IF ~State_valid_user(username, hashmap)
    THEN [file |-> stfile, result |-> Err("StateInvalidUserError", username)]
    ELSE IF stfile.val.current_user.some THEN [file |-> State_write(stfile.val), result |-> Ok]
    ELSE [file |-> State_write(LoggedIn(username)), result |-> Ok]

\* Faulty variant of State::try_set_user (an invalid username logs the
\* session out).  C15 must tell it from the code.
State_try_set_user_logout_on_invalid(stfile, username, hashmap) ==
    IF ~State_valid_user(username, hashmap)
    THEN [file |-> State_write(LoggedOut), result |-> Err("StateInvalidUserError", username)]
    ELSE [file |-> State_write(LoggedIn(username)), result |-> Ok]

\* State::try_set_user: State.JSON afterwards and the result
State_try_set_user(stfile, username, hashmap) ==
    IF ~State_valid_user(username, hashmap)
    THEN [file |-> stfile, result |-> Err("StateInvalidUserError", username)]
    ELSE [file |-> State_write(LoggedIn(username)), result |-> Ok]

\* A file that exists but holds no complete document: File::create has
\* emptied it and write_all has written `bytes` of the new document ("none"
\* or "part") before it failed.  Like None it has no map to give.
Torn(bytes) == [some |-> FALSE, bytes |-> bytes]

\* read_from_hashmap: the map of the file, IOHashMapOpenError when there is
\* no file, DeserializeJSONError when the file is not a complete document
read_from_hashmap(file, path) ==
    IF file.some THEN [ok |-> TRUE, map |-> file.val, err |-> Ok]
    ELSE IF file = None
    THEN [ok |-> FALSE, map |-> EmptyMap, err |-> Err("IOHashMapOpenError", path)]
    ELSE [ok |-> FALSE, map |-> EmptyMap, err |-> Err("DeserializeJSONError", path)]

\* write_to_hashmap: the file after the write
write_to_hashmap(hashmap) == Some(hashmap)

\* modify_hashmap: read, apply f, write when f succeeded.  `applied` is f
\* applied to the map read, [map |-> the map after f, result |-> f's result];
\* it is looked at only when the read succeeded.
modify_hashmap(file, path, applied) ==
    LET rd == read_from_hashmap(file, path)
    IN  IF ~rd.ok THEN [file |-> file, result |-> rd.err]
        ELSE IF applied.result # Ok THEN [file |-> file, result |-> applied.result]
             ELSE [file |-> write_to_hashmap(applied.map), result |-> Ok]

\* write_to_hashmap when the file system may fail: the write completes, or
\* File::create fails and the file is as it was, or File::create has
\* truncated the file and write_all fails with nothing or a part written
write_to_hashmap_io(file, path, hashmap) ==
    {[file |-> Some(hashmap), result |-> Ok],
     [file |-> file, result |-> Err("IOHashMapOpenError", path)],
     [file |-> Torn("none"), result |-> Err("IOHashMapWriteError", path)],
     [file |-> Torn("part"), result |-> Err("IOHashMapWriteError", path)]}

\* modify_hashmap when the file system may fail: the possible outcomes
modify_hashmap_io(file, path, applied) ==
    LET rd == read_from_hashmap(file, path)
    IN  IF ~rd.ok THEN {[file |-> file, result |-> rd.err]}
        ELSE IF applied.result # Ok THEN {[file |-> file, result |-> applied.result]}
             ELSE write_to_hashmap_io(file, path, applied.map)

\* Faulty variant of the save of modify_hashmap (the map is merged into
\* what the file holds at the time of the save).  C21 must tell it from the
\* code.
modify_hashmap_save_merge(file, hashmap) ==
    IF file.some
    THEN Some([k \in (DOMAIN file.val) \cup (DOMAIN hashmap) |->
                 IF k \in DOMAIN hashmap THEN hashmap[k] ELSE file.val[k]])
    ELSE Some(hashmap)

\* modify_hashmap, its last line on its own: the map in memory replaces
\* whatever the file holds by then
modify_hashmap_save(file, hashmap) == write_to_hashmap(hashmap)

(***************************************************************************)
(* Handlers (src/src/lib.rs).  d is the three files before the command;    *)
(* each handler gives the set of its possible outcomes.                    *)
(***************************************************************************)
\* Faulty variant of init (`state.clear_user` left out): the session is
\* only read.  C17 must tell it from the code.
init_keeps_session(d) ==
    {Outcome(write_to_hashmap(EmptyMap), write_to_hashmap(EmptyMap),
             State_init(d.state).file, Ok, {})}

init(d) ==
    {Outcome(write_to_hashmap(EmptyMap), write_to_hashmap(EmptyMap), State_clear_user, Ok, {})}

login(d, username) ==
    LET si == State_init(d.state)
        rd == read_from_hashmap(d.users, UserMapPath)
    IN  IF ~rd.ok THEN {Outcome(d.users, d.stocks, si.file, rd.err, {})}
        ELSE LET t == State_try_set_user(si.file, username, rd.map)
             IN  {Outcome(d.users, d.stocks, t.file, t.result, {})}

\* Faulty variant of logout (it refuses when nobody is logged in).  C16
\* must tell it from the code.
logout_requires_user(d) ==
    LET si == State_init(d.state)
    IN  IF ~si.st.current_user.some
        THEN {Outcome(d.users, d.stocks, si.file, Err("StateNoUserError", ""), {})}
        ELSE {Outcome(d.users, d.stocks, State_clear_user, Ok, {})}

logout(d) ==
    {Outcome(d.users, d.stocks, State_clear_user, Ok, {})}

\* Faulty variant of the closure of create_user (`insert` for `try_insert`):
\* an existing record is overwritten.  C9 must tell it from the code.
create_user_f_overwrite(hashmap, username) ==
    [map |-> insert(hashmap, username, User_new_from_username(username)), result |-> Ok]

\* Faulty variant of the closure of create_user (the user is inserted into
\* a new map, not the one read).  C10 must tell it from the code.
create_user_f_fresh(hashmap, username) ==
    IF contains_key(hashmap, username)
    THEN [map |-> hashmap, result |-> Err("HashMapInsertError", username)]
    ELSE [map |-> insert(EmptyMap, username, User_new_from_username(username)),
          result |-> Ok]

\* the closure of create_user: try_insert of a new user
create_user_f(hashmap, username) ==
    IF contains_key(hashmap, username)
    THEN [map |-> hashmap, result |-> Err("HashMapInsertError", username)]
    ELSE [map |-> insert(hashmap, username, User_new_from_username(username)), result |-> Ok]

\* create_user inside modify_hashmap, before the save: the map read and
\* changed in memory by the closure
modify_hashmap_load(file, path, username) ==
    LET rd == read_from_hashmap(file, path)
    IN  IF ~rd.ok THEN [map |-> EmptyMap, result |-> rd.err]
        ELSE create_user_f(rd.map, username)

create_user(d, username) ==
    LET m == modify_hashmap(d.users, UserMapPath, create_user_f(d.users.val, username))
    IN  {Outcome(m.file, d.stocks, d.state, m.result, {})}

\* Faulty variant of the closure of the deletes (`ok_or_else` on the wrong
\* case): the removal of a key that is there is reported as failed.  C32
\* must tell it from the code.
delete_f_present_fails(hashmap, key) ==
    IF contains_key(hashmap, key)
    THEN [map |-> hashmap, result |-> Err("HashMapRemoveError", key)]
    ELSE [map |-> remove(hashmap, key), result |-> Ok]

\* the closure of delete_user and delete_stock: remove, RemoveError if absent
delete_f(hashmap, key) ==
    IF contains_key(hashmap, key)
    THEN [map |-> remove(hashmap, key), result |-> Ok]
    ELSE [map |-> hashmap, result |-> Err("HashMapRemoveError", key)]

\* Faulty variant of the confirmation (`to_lowercase` left out): an answer
\* in capitals is not recognized.  C12 must tell it from the code.
confirmation_case_sensitive(ans) ==
    LET a == trim(ans)
    IN  IF a \in {"y", "yes"} THEN "yes"
        ELSE IF a \in {"q", "quit", "n", "no"} THEN "no"
        ELSE ""

\* Faulty variant of the confirmation (the `_` arm declines like "no"): an
\* unrecognized answer is a refusal.  C13 must tell it from the code.
confirmation_default_no(ans) ==
    LET a == to_lowercase(trim(ans))
    IN  IF a \in {"y", "yes"} THEN "yes" ELSE "no"

\* the confirmation read from standard input: "yes", "no" or "" (neither)
confirmation(ans) ==
    LET a == to_lowercase(trim(ans))
    IN  IF a \in {"y", "yes"} THEN "yes"
        ELSE IF a \in {"q", "quit", "n", "no"} THEN "no"
        ELSE ""

\* Faulty variant of the start of the deletes (the prompt comes before the
\* preliminary check).  C33 must tell it from the code.
delete_check_prompt_first(file, path, key) ==
    LET rd == read_from_hashmap(file, path)
    IN  IF ~rd.ok THEN rd.err ELSE Ok

\* delete_user and delete_stock up to the prompt ("Preliminary check"):
\* Ok when the confirmation is going to be asked for
delete_check(file, path, key) ==
    LET rd == read_from_hashmap(file, path)
    IN  IF ~rd.ok THEN rd.err
        ELSE IF ~contains_key(rd.map, key) THEN Err("HashMapKeyNotFoundError", key)
        ELSE Ok

\* delete_user and delete_stock from the answer on: the file afterwards and
\* the result
delete_answered(file, path, key, ans) ==
    IF confirmation(ans) = "yes"
    THEN modify_hashmap(file, path, delete_f(file.val, key))
    ELSE IF confirmation(ans) = "no" THEN [file |-> file, result |-> Ok]
    ELSE [file |-> file, result |-> Err("InvalidInputError", "")]

\* Faulty variant of delete_user (deleting the session user logs the
\* session out).  C35 must tell it from the code.
delete_user_clears_session(d, username, ans) ==
    LET rd == read_from_hashmap(d.users, UserMapPath)
    IN  IF ~rd.ok THEN {Outcome(d.users, d.stocks, d.state, rd.err, {})}
        ELSE IF ~contains_key(rd.map, username)
        THEN {Outcome(d.users, d.stocks, d.state, Err("HashMapKeyNotFoundError", username), {})}
        ELSE IF confirmation(ans) = "yes"
        THEN LET m == modify_hashmap(d.users, UserMapPath, delete_f(d.users.val, username))
                 si == State_init(d.state)
             IN  {Outcome(m.file, d.stocks,
                          IF si.st.current_user = Some(username) THEN State_clear_user
                          ELSE si.file,
                          m.result, {})}
        ELSE IF confirmation(ans) = "no"
        THEN {Outcome(d.users, d.stocks, d.state, Ok, {})}
        ELSE {Outcome(d.users, d.stocks, d.state, Err("InvalidInputError", ""), {})}

\* Faulty variant of delete_user (the removal is saved before the answer is
\* looked at, and undone only on a refusal).  C8 must tell it from the code.
delete_user_remove_first(d, username, ans) ==
    LET rd == read_from_hashmap(d.users, UserMapPath)
    IN  IF ~rd.ok THEN {Outcome(d.users, d.stocks, d.state, rd.err, {})}
        ELSE IF ~contains_key(rd.map, username)
        THEN {Outcome(d.users, d.stocks, d.state, Err("HashMapKeyNotFoundError", username), {})}
        ELSE LET m == modify_hashmap(d.users, UserMapPath, delete_f(d.users.val, username))
             IN  IF confirmation(ans) = "yes"
                 THEN {Outcome(m.file, d.stocks, d.state, m.result, {})}
                 ELSE IF confirmation(ans) = "no"
                 THEN {Outcome(d.users, d.stocks, d.state, Ok, {})}
                 ELSE {Outcome(m.file, d.stocks, d.state, Err("InvalidInputError", ""), {})}

delete_user(d, username, ans) ==
    LET rd == read_from_hashmap(d.users, UserMapPath)
    IN  IF ~rd.ok THEN {Outcome(d.users, d.stocks, d.state, rd.err, {})}
        ELSE IF ~contains_key(rd.map, username)
        THEN {Outcome(d.users, d.stocks, d.state, Err("HashMapKeyNotFoundError", username), {})}
        ELSE IF confirmation(ans) = "yes"
        THEN LET m == modify_hashmap(d.users, UserMapPath, delete_f(d.users.val, username))
             IN  {Outcome(m.file, d.stocks, d.state, m.result, {})}
        ELSE IF confirmation(ans) = "no"
        THEN {Outcome(d.users, d.stocks, d.state, Ok, {})}
        ELSE {Outcome(d.users, d.stocks, d.state, Err("InvalidInputError", ""), {})}

\* Faulty variant of the re-keying (`remove` left out): the record stays
\* under its old key as well.  C7 must tell it from the code.
rekey_keep_old(hashmap, old_key, new_key, record) ==
    insert(hashmap, new_key, record)

\* Faulty variant of the re-keying (the two keys interchanged): the edited
\* record stays under its old key.  C18 must tell it from the code.
rekey_swapped(hashmap, old_key, new_key, record) ==
    insert(remove(hashmap, new_key), old_key, record)

\* edit_user and edit_stock, "Remove old entry from HashMap if necessary":
\* the edited record leaves its old key and is inserted under the new one
rekey(hashmap, old_key, new_key, record) ==
    insert(remove(hashmap, old_key), new_key, record)

\* edit_user, "If the user we changed is the one logged in": the test the
\* code makes before it writes the new username to the session
edit_user_updates_state(st, username, new_username) ==
    st.current_user = Some(new_username)

edit_user(d, username, property, value) ==
    LET rd == read_from_hashmap(d.users, UserMapPath)
    IN  IF ~rd.ok THEN {Outcome(d.users, d.stocks, d.state, rd.err, {})}
        ELSE IF ~contains_key(rd.map, username)
        THEN {Outcome(d.users, d.stocks, d.state, Err("HashMapKeyNotFoundError", username), {})}
        ELSE LET field == User_get_property(property)
             IN  IF field = ""
                 THEN {Outcome(d.users, d.stocks, d.state, Err("InvalidInputError", ""), {})}
                 ELSE LET user == [rd.map[username] EXCEPT ![field] = value]
                          update_username == (field = "username")
                          edited == [rd.map EXCEPT ![username] = user]
                          user_map == IF update_username
                                      THEN rekey(edited, username, value, user)
                                      ELSE edited
                          si == State_init(d.state)
                          stfile == IF update_username
                                       /\ edit_user_updates_state(si.st, username, value)
                                    THEN State_set_user(value)
                                    ELSE si.file
                      IN  {Outcome(write_to_hashmap(user_map), d.stocks, stfile, Ok, {})}

list_users(d) ==
    LET rd == read_from_hashmap(d.users, UserMapPath)
    IN  IF ~rd.ok THEN {Outcome(d.users, d.stocks, d.state, rd.err, {})}
        ELSE {Outcome(d.users, d.stocks, d.state, Ok, DOMAIN rd.map)}

\* the closure of create_stock: try_insert of a new stock
create_stock_f(hashmap, stock_id) ==
    IF contains_key(hashmap, stock_id)
    THEN [map |-> hashmap, result |-> Err("HashMapInsertError", stock_id)]
    ELSE [map |-> insert(hashmap, stock_id, Stock_new_from_ticker(stock_id)), result |-> Ok]

create_stock(d, stock_id) ==
    LET m == modify_hashmap(d.stocks, StockMapPath, create_stock_f(d.stocks.val, stock_id))
    IN  {Outcome(d.users, m.file, d.state, m.result, {})}

delete_stock(d, stock_id, ans) ==
    LET rd == read_from_hashmap(d.stocks, StockMapPath)
    IN  IF ~rd.ok THEN {Outcome(d.users, d.stocks, d.state, rd.err, {})}
        ELSE IF ~contains_key(rd.map, stock_id)
        THEN {Outcome(d.users, d.stocks, d.state, Err("HashMapKeyNotFoundError", stock_id), {})}
        ELSE IF confirmation(ans) = "yes"
        THEN LET m == modify_hashmap(d.stocks, StockMapPath, delete_f(d.stocks.val, stock_id))
             IN  {Outcome(d.users, m.file, d.state, m.result, {})}
        ELSE IF confirmation(ans) = "no"
        THEN {Outcome(d.users, d.stocks, d.state, Ok, {})}
        ELSE {Outcome(d.users, d.stocks, d.state, Err("InvalidInputError", ""), {})}

edit_stock(d, stock_id, property, value) ==
    LET rd == read_from_hashmap(d.stocks, StockMapPath)
    IN  IF ~rd.ok THEN {Outcome(d.users, d.stocks, d.state, rd.err, {})}
        ELSE IF ~contains_key(rd.map, stock_id)
        THEN {Outcome(d.users, d.stocks, d.state, Err("HashMapKeyNotFoundError", stock_id), {})}
        ELSE LET field == Stock_get_property(property)
                 parsed == parse_or_err_f64(value)
             IN  IF field = ""
                 THEN {Outcome(d.users, d.stocks, d.state, Err("InvalidInputError", ""), {})}
                 ELSE IF field = "value" /\ ~parsed.ok
                 THEN {Outcome(d.users, d.stocks, d.state, parsed.err, {})}
                 ELSE LET stock == IF field = "value"
                                   THEN [rd.map[stock_id] EXCEPT !.value = parsed.val]
                                   ELSE [rd.map[stock_id] EXCEPT ![field] = value]
                          update_stock_id == (field = "ticker")
                          edited == [rd.map EXCEPT ![stock_id] = stock]
                          stock_map == IF update_stock_id
                                       THEN rekey(edited, stock_id, value, stock)
                                       ELSE edited
                      IN  {Outcome(d.users, write_to_hashmap(stock_map), d.state, Ok, {})}

list_stocks(d) ==
    LET rd == read_from_hashmap(d.stocks, StockMapPath)
    IN  IF ~rd.ok THEN {Outcome(d.users, d.stocks, d.state, rd.err, {})}
        ELSE {Outcome(d.users, d.stocks, d.state, Ok, DOMAIN rd.map)}

\* Faulty variant of buy_stock (the quantity is parsed after the two
\* lookups).  C34 must tell it from the code.
buy_stock_parse_last(d, stock_id, quantity) ==
    LET si == State_init(d.state)
        stock_qt == parse_or_err_u32(quantity)
        rs == read_from_hashmap(d.stocks, StockMapPath)
        ru == read_from_hashmap(d.users, UserMapPath)
    IN  IF ~si.st.current_user.some
        THEN {Outcome(d.users, d.stocks, si.file, Err("StateNoUserError", ""), {})}
        ELSE IF ~rs.ok THEN {Outcome(d.users, d.stocks, si.file, rs.err, {})}
        ELSE IF ~contains_key(rs.map, stock_id)
        THEN {Outcome(d.users, d.stocks, si.file, Err("HashMapKeyNotFoundError", stock_id), {})}
        ELSE IF ~ru.ok THEN {Outcome(d.users, d.stocks, si.file, ru.err, {})}
        ELSE LET username == si.st.current_user.val
             IN  IF ~contains_key(ru.map, username)
                 THEN {Outcome(d.users, d.stocks, si.file,
                               Err("HashMapKeyNotFoundError", username), {})}
                 ELSE IF ~stock_qt.ok
                 THEN {Outcome(d.users, d.stocks, si.file, stock_qt.err, {})}
                 ELSE {IF o.result = Ok
                       THEN Outcome(write_to_hashmap([ru.map EXCEPT ![username] = o.user]),
                                    d.stocks, si.file, Ok, {})
                       ELSE Outcome(d.users, d.stocks, si.file, o.result, {})
                       : o \in User_add_stock(ru.map[username], rs.map[stock_id],
                                              stock_qt.val)}

\* Faulty variant of buy_stock (the quantity is parsed before the session is
\* looked at).  C11 must tell it from the code.
buy_stock_parse_first(d, stock_id, quantity) ==
    LET si == State_init(d.state)
        stock_qt == parse_or_err_u32(quantity)
        rs == read_from_hashmap(d.stocks, StockMapPath)
        ru == read_from_hashmap(d.users, UserMapPath)
    IN  IF ~stock_qt.ok THEN {Outcome(d.users, d.stocks, si.file, stock_qt.err, {})}
        ELSE IF ~si.st.current_user.some
        THEN {Outcome(d.users, d.stocks, si.file, Err("StateNoUserError", ""), {})}
        ELSE IF ~rs.ok THEN {Outcome(d.users, d.stocks, si.file, rs.err, {})}
        ELSE IF ~contains_key(rs.map, stock_id)
        THEN {Outcome(d.users, d.stocks, si.file, Err("HashMapKeyNotFoundError", stock_id), {})}
        ELSE IF ~ru.ok THEN {Outcome(d.users, d.stocks, si.file, ru.err, {})}
        ELSE LET username == si.st.current_user.val
             IN  IF ~contains_key(ru.map, username)
                 THEN {Outcome(d.users, d.stocks, si.file,
                               Err("HashMapKeyNotFoundError", username), {})}
                 ELSE {IF o.result = Ok
                       THEN Outcome(write_to_hashmap([ru.map EXCEPT ![username] = o.user]),
                                    d.stocks, si.file, Ok, {})
                       ELSE Outcome(d.users, d.stocks, si.file, o.result, {})
                       : o \in User_add_stock(ru.map[username], rs.map[stock_id],
                                              stock_qt.val)}

buy_stock(d, stock_id, quantity) ==
    LET si == State_init(d.state)
        stock_qt == parse_or_err_u32(quantity)
        rs == read_from_hashmap(d.stocks, StockMapPath)
        ru == read_from_hashmap(d.users, UserMapPath)
    IN  IF ~si.st.current_user.some
        THEN {Outcome(d.users, d.stocks, si.file, Err("StateNoUserError", ""), {})}
        ELSE IF ~stock_qt.ok THEN {Outcome(d.users, d.stocks, si.file, stock_qt.err, {})}
        ELSE IF ~rs.ok THEN {Outcome(d.users, d.stocks, si.file, rs.err, {})}
        ELSE IF ~contains_key(rs.map, stock_id)
        THEN {Outcome(d.users, d.stocks, si.file, Err("HashMapKeyNotFoundError", stock_id), {})}
        ELSE IF ~ru.ok THEN {Outcome(d.users, d.stocks, si.file, ru.err, {})}
        ELSE LET username == si.st.current_user.val
             IN  IF ~contains_key(ru.map, username)
                 THEN {Outcome(d.users, d.stocks, si.file,
                               Err("HashMapKeyNotFoundError", username), {})}
                 ELSE {IF o.result = Ok
                       THEN Outcome(write_to_hashmap([ru.map EXCEPT ![username] = o.user]),
                                    d.stocks, si.file, Ok, {})
                       ELSE Outcome(d.users, d.stocks, si.file, o.result, {})
                       : o \in User_add_stock(ru.map[username], rs.map[stock_id],
                                              stock_qt.val)}

list_portfolio(d) ==
    LET si == State_init(d.state)
        ru == read_from_hashmap(d.users, UserMapPath)
    IN  IF ~si.st.current_user.some
        THEN {Outcome(d.users, d.stocks, si.file, Err("StateNoUserError", ""), {})}
        ELSE IF ~ru.ok THEN {Outcome(d.users, d.stocks, si.file, ru.err, {})}
        ELSE LET username == si.st.current_user.val
             IN  IF ~contains_key(ru.map, username)
                 THEN {Outcome(d.users, d.stocks, si.file,
                               Err("HashMapKeyNotFoundError", username), {})}
                 ELSE LET user == ru.map[username]
                      IN  {Outcome(d.users, d.stocks, si.file, Ok,
                               IF user.portfolio.some THEN DOMAIN user.portfolio.val ELSE {})}

\* The handlers that save through modify_hashmap, when the save may fail
create_user_io(d, username) ==
    {Outcome(m.file, d.stocks, d.state, m.result, {})
     : m \in modify_hashmap_io(d.users, UserMapPath, create_user_f(d.users.val, username))}

create_stock_io(d, stock_id) ==
    {Outcome(d.users, m.file, d.state, m.result, {})
     : m \in modify_hashmap_io(d.stocks, StockMapPath, create_stock_f(d.stocks.val, stock_id))}

delete_user_io(d, username, ans) ==
    LET rd == read_from_hashmap(d.users, UserMapPath)
    IN  IF ~rd.ok THEN {Outcome(d.users, d.stocks, d.state, rd.err, {})}
        ELSE IF ~contains_key(rd.map, username)
        THEN {Outcome(d.users, d.stocks, d.state, Err("HashMapKeyNotFoundError", username), {})}
        ELSE IF confirmation(ans) = "yes"
        THEN {Outcome(m.file, d.stocks, d.state, m.result, {})
              : m \in modify_hashmap_io(d.users, UserMapPath, delete_f(d.users.val, username))}
        ELSE IF confirmation(ans) = "no"
        THEN {Outcome(d.users, d.stocks, d.state, Ok, {})}
        ELSE {Outcome(d.users, d.stocks, d.state, Err("InvalidInputError", ""), {})}

delete_stock_io(d, stock_id, ans) ==
    LET rd == read_from_hashmap(d.stocks, StockMapPath)
    IN  IF ~rd.ok THEN {Outcome(d.users, d.stocks, d.state, rd.err, {})}
        ELSE IF ~contains_key(rd.map, stock_id)
        THEN {Outcome(d.users, d.stocks, d.state, Err("HashMapKeyNotFoundError", stock_id), {})}
        ELSE IF confirmation(ans) = "yes"
        THEN {Outcome(d.users, m.file, d.state, m.result, {})
              : m \in modify_hashmap_io(d.stocks, StockMapPath, delete_f(d.stocks.val, stock_id))}
        ELSE IF confirmation(ans) = "no"
        THEN {Outcome(d.users, d.stocks, d.state, Ok, {})}
        ELSE {Outcome(d.users, d.stocks, d.state, Err("InvalidInputError", ""), {})}

\* run: Command::Exit is only valid in console mode
run_exit(d) ==
    {Outcome(d.users, d.stocks, d.state, Err("InvalidInputError", ""), {})}

(***************************************************************************)
(* console_mode (src/src/lib.rs): one turn of the loop                     *)
(***************************************************************************)
\* str::split_ascii_whitespace: the tokens of a line
RECURSIVE split_tokens(_, _, _)
split_tokens(s, cur, acc) ==
    IF Len(s) = 0 THEN (IF cur = "" THEN acc ELSE Append(acc, cur))
    ELSE IF IsWhite(Char(s, 1))
    THEN split_tokens(SubSeq(s, 2, Len(s)), "", IF cur = "" THEN acc ELSE Append(acc, cur))
    ELSE split_tokens(SubSeq(s, 2, Len(s)), cur \o Char(s, 1), acc)

split_ascii_whitespace(s) == split_tokens(s, "", <<>>)

\* the handler console_mode (and run) calls for a command other than
\* Console and Exit
dispatch(d, command, remainder, ans) ==
    CASE command = "Init" -> init(d)
      [] command = "StateC(Login)" -> login(d, remainder[1])
      [] command = "StateC(Logout)" -> logout(d)
      [] command = "UserC(Create)" -> create_user(d, remainder[1])
      [] command = "UserC(Delete)" -> delete_user(d, remainder[1], ans)
      [] command = "UserC(Edit)" -> edit_user(d, remainder[1], remainder[2], remainder[3])
      [] command = "UserC(List)" -> list_users(d)
      [] command = "StockC(Create)" -> create_stock(d, remainder[1])
      [] command = "StockC(Delete)" -> delete_stock(d, remainder[1], ans)
      [] command = "StockC(Edit)" -> edit_stock(d, remainder[1], remainder[2], remainder[3])
      [] command = "StockC(List)" -> list_stocks(d)
      [] command = "PortfolioC(Buy)" -> buy_stock(d, remainder[1], remainder[2])
      [] command = "PortfolioC(List)" -> list_portfolio(d)

\* what one turn of the loop leaves: the files, the handler's result, and
\* whether the loop goes on ("loop") or console_mode has returned `ret`
Turn(u, s, st, r, o, status, ret) ==
    [users |-> u, stocks |-> s, state |-> st, result |-> r, out |-> o,
     status |-> status, ret |-> ret]

\* Faulty variant (the error of Config::new is returned with `?`).  C23
\* must tell it from the code.
console_not_recognized_return(d, err) ==
    Turn(d.users, d.stocks, d.state, Ok, {}, "returned", err)

\* Err(_) => { notify("Command not recognized."); continue }
console_not_recognized(d, err) ==
    Turn(d.users, d.stocks, d.state, Ok, {}, "loop", Ok)

\* Faulty variant (Exit is dispatched as run dispatches it).  C24 must tell
\* it from the code.
console_exit_as_run(d) ==
    Turn(d.users, d.stocks, d.state, Ok, {}, "returned", Err("InvalidInputError", ""))

\* Command::Exit => { notify("Exiting..."); return Ok(()) }
console_exit(d) ==
    Turn(d.users, d.stocks, d.state, Ok, {}, "returned", Ok)

\* Faulty variant (HashMapInsertError is printed and the loop goes on).
\* C22 must tell it from the code.
console_recoverable_with_insert(r) ==
    r.kind \in {"InputParseError", "HashMapKeyNotFoundError", "StateNoUserError",
                "StateInvalidUserError", "HashMapInsertError"}

\* "Check if Error command should throw exit console mode or not": the
\* errors that are printed
console_recoverable(r) ==
    r.kind \in {"InputParseError", "HashMapKeyNotFoundError", "StateNoUserError",
                "StateInvalidUserError"}

\* the environment Config::new finds in console mode: the one main's
\* Config::new has resolved the configuration directory in
ConsoleEnv == [var |-> "", home |-> Some("/home/u")]

\* the arguments a line is bound from
console_args(line) == split_ascii_whitespace("filler " \o line)

\* io::stdin().read_line on the lines still to come: the line read and the
\* lines left; at the end of input it gives the empty line
read_line(stdin) ==
    IF stdin = <<>> THEN [line |-> "", rest |-> <<>>]
    ELSE [line |-> Head(stdin), rest |-> Tail(stdin)]

\* whether the handler of a bound line reads a line itself: the two deletes
\* do, once their preliminary check has passed
handler_reads(d, config) ==
    /\ config.ok
    /\ \/ /\ config.command = "UserC(Delete)"
          /\ delete_check(d.users, UserMapPath, config.remainder[1]) = Ok
       \/ /\ config.command = "StockC(Delete)"
          /\ delete_check(d.stocks, StockMapPath, config.remainder[1]) = Ok

\* the turn from the result of Config::new on
console_bound(d, this_config, ans) ==
    IF ~this_config.ok THEN {console_not_recognized(d, this_config.err)}
    ELSE IF this_config.command = "Console"
    THEN {Turn(d.users, d.stocks, d.state, Ok, {}, "loop", Ok)}
    ELSE IF this_config.command = "Exit" THEN {console_exit(d)}
    ELSE {IF o.result = Ok \/ console_recoverable(o.result)
          THEN Turn(o.users, o.stocks, o.state, o.result, o.out, "loop", Ok)
          ELSE Turn(o.users, o.stocks, o.state, o.result, o.out, "returned", o.result)
          : o \in dispatch(d, this_config.command, this_config.remainder, ans)}

\* one turn of the loop on `line`; `ans` is the line read next, should the
\* handler ask for a confirmation
console_turn(d, line, ans) ==
    console_bound(d, Config_new(console_args(line), ConsoleEnv), ans)

(***************************************************************************)
(* Inputs.  The arguments of a behaviour come from one of three alphabets: *)
(* two users over one stock, one user over two stocks, and one user with   *)
(* one stock over the quantities at the edges of u32.                      *)
(***************************************************************************)
Alphabet(names, tickers, userEdits, stockEdits, quantities) ==
    [names |-> names, tickers |-> tickers, userEdits |-> userEdits,
     stockEdits |-> stockEdits, quantities |-> quantities]

UsersAlphabet ==
    Alphabet({"a", "b"}, {"X"},
             {<<"u", "c">>, <<"USERNAME", "b">>, <<"fn", "v">>, <<"name", "v">>},
             {<<"price", "v">>},
             {"1"})

StocksAlphabet ==
    Alphabet({"a"}, {"X", "Y"},
             {<<"name", "v">>, <<"fn", "v">>},
             {<<"t", "X">>, <<"Ticker", "Y">>, <<"V", "1.50">>, <<"value", "abc">>},
             {"1", "2"})

QuantitiesAlphabet ==
    Alphabet({"a"}, {"X"},
             {<<"Last-Name", "v">>, <<"mi", "v">>},
             {<<"cn", "v">>},
             {"0", "1", "4294967295", "4294967296", "-1", "1x"})

Alphabets == {UsersAlphabet, StocksAlphabet, QuantitiesAlphabet}

\* the lines typed at the confirmation of a delete; "" is the end of input
Answers == {"YES\n", "y", "n\n", "Quit\n", "maybe\n", ""}

\* The argument lists given to Config::new: every name of the command
\* table, in lower case, in upper case and with its first letters in either
\* case, and some strings that are not in the table, followed by 0 to 4
\* further tokens; and the two lists without a verb.
UpperChar(c) ==
    IF \E i \in 1..Len(LowerChars) : Char(LowerChars, i) = c
    THEN Char(UpperChars, CHOOSE i \in 1..Len(LowerChars) : Char(LowerChars, i) = c)
    ELSE c

RECURSIVE to_uppercase(_)
to_uppercase(s) ==
    IF Len(s) = 0 THEN s
    ELSE UpperChar(Char(s, 1)) \o to_uppercase(SubSeq(s, 2, Len(s)))

RECURSIVE CaseVariants(_, _)
CaseVariants(s, n) ==
    IF n = 0 \/ Len(s) = 0 THEN {s}
    ELSE {c \o r : c \in {Char(s, 1), UpperChar(Char(s, 1))},
                   r \in CaseVariants(SubSeq(s, 2, Len(s)), n - 1)}

VerbTable ==
    {"i", "init", "co", "console", "q", "quit", "exit", "li", "login", "lo", "logout",
     "cu", "create-user", "du", "delete-user", "eu", "edit-user", "lu", "list-users",
     "cs", "create-stock", "ds", "delete-stock", "es", "edit-stock", "ls", "list-stocks",
     "bs", "buy-stock", "lp", "list-portfolio"}

UnknownVerbs == {"frobnicate", "", "create_user", "list-user", "-init", "init,", "a"}

Verbs ==
    UNION {CaseVariants(v, MaxCaseLen) \cup {to_uppercase(v)} : v \in VerbTable}
        \cup UnknownVerbs

Trailing == <<"a", "fn", "v", "more">>

ArgLists ==
    {<<>>, <<"stock_tracker">>}
        \cup {<<"stock_tracker", v>> \o SubSeq(Trailing, 1, n) : v \in Verbs, n \in 0..4}

Environments ==
    {[var |-> "/cfg", home |-> Some("/home/u")],
     [var |-> "", home |-> Some("/home/u")],
     [var |-> "", home |-> None]}

\* The lines typed in console mode ("" is the end of input), and the lines
\* typed at the confirmation of a delete
ConsoleLines ==
    {"init\n", "cu a\n", "li a\n", "li b\n", "lo\n", "du a\n",
     "eu a fn v\n", "eu a zz v\n", "eu b fn v\n",
     "cs X\n", "es X v abc\n", "ds X\n", "bs X 1\n", "bs X 1x\n",
     "lp\n", "lu\n", "ls\n", "console\n",
     "exit\n", "Q\n", "quit now\n",
     "\n", " \t\n", "", "frobnicate a\n", "eu a\n", "bs X\n"}

ConsoleAnswers == {"y\n", "n\n", "maybe\n"}

\* nothing has been bound, no console loop, no concurrent invocation
NoBinding ==
    [args |-> <<>>, env |-> [var |-> "", home |-> None], parsed |-> CommandInvalid,
     config |-> ConfigErr(Ok), shown |-> "", reparsed |-> CommandInvalid]
ConsoleOff == [status |-> "off", line |-> "", read |-> FALSE, bound |-> FALSE, ret |-> Ok]
NoProcs == [p \in {} |-> 0]

Command(op, a0, a1, a2, ans) == [op |-> op, a0 |-> a0, a1 |-> a1, a2 |-> a2, ans |-> ans]
NoCommand == Command("", "", "", "", "")
Disk == [users |-> users, stocks |-> stocks, state |-> state]

\* the holding of the session user under ticker t, if there is one
SessionHolding(t) ==
    IF /\ state.some
       /\ state.val.current_user.some
       /\ users.some
       /\ contains_key(users.val, state.val.current_user.val)
    THEN LET user == users.val[state.val.current_user.val]
         IN  IF user.portfolio.some /\ contains_key(user.portfolio.val, t)
             THEN Some(user.portfolio.val[t])
             ELSE None
    ELSE None

BuyBounded(t) ==
    SessionHolding(t).some =>
        /\ SessionHolding(t).val.quantity.hi = 0
        /\ SessionHolding(t).val.quantity.lo <= MaxQty

(***************************************************************************)
(* The state machine: one action per command                               *)
(***************************************************************************)
Init ==
    /\ users = None
    /\ stocks = None
    /\ state = None
    /\ pre = [users |-> None, stocks |-> None, state |-> None]
    /\ cmd = NoCommand
    /\ result = Ok
    /\ out = {}
    /\ running = FALSE
    /\ inputs \in Alphabets
    /\ bind = NoBinding
    /\ console = ConsoleOff
    /\ procs = NoProcs

\* the program is started with command c and ends with outcome o
Ran(c, o) ==
    /\ users' = o.users
    /\ stocks' = o.stocks
    /\ state' = o.state
    /\ result' = o.result
    /\ out' = o.out
    /\ pre' = Disk
    /\ cmd' = c
    /\ running' = TRUE
    /\ UNCHANGED <<inputs, bind, console, procs>>

DoInit ==
    /\ ~running
    /\ \E o \in init(Disk) : Ran(Command("init", "", "", "", ""), o)

DoLogin ==
    /\ ~running
    /\ \E u \in inputs.names : \E o \in login(Disk, u) :
          Ran(Command("login", u, "", "", ""), o)

DoLogout ==
    /\ ~running
    /\ \E o \in logout(Disk) : Ran(Command("logout", "", "", "", ""), o)

DoCreateUser ==
    /\ ~running
    /\ \E u \in inputs.names : \E o \in create_user(Disk, u) :
          Ran(Command("create-user", u, "", "", ""), o)

DoDeleteUser ==
    /\ ~running
    /\ \E u \in inputs.names, ans \in Answers : \E o \in delete_user(Disk, u, ans) :
          Ran(Command("delete-user", u, "", "", ans), o)

DoEditUser ==
    /\ ~running
    /\ \E u \in inputs.names, e \in inputs.userEdits :
          \E o \in edit_user(Disk, u, e[1], e[2]) :
             Ran(Command("edit-user", u, e[1], e[2], ""), o)

DoListUsers ==
    /\ ~running
    /\ \E o \in list_users(Disk) : Ran(Command("list-users", "", "", "", ""), o)

DoCreateStock ==
    /\ ~running
    /\ \E t \in inputs.tickers : \E o \in create_stock(Disk, t) :
          Ran(Command("create-stock", t, "", "", ""), o)

DoDeleteStock ==
    /\ ~running
    /\ \E t \in inputs.tickers, ans \in Answers : \E o \in delete_stock(Disk, t, ans) :
          Ran(Command("delete-stock", t, "", "", ans), o)

DoEditStock ==
    /\ ~running
    /\ \E t \in inputs.tickers, e \in inputs.stockEdits :
          \E o \in edit_stock(Disk, t, e[1], e[2]) :
             Ran(Command("edit-stock", t, e[1], e[2], ""), o)

DoListStocks ==
    /\ ~running
    /\ \E o \in list_stocks(Disk) : Ran(Command("list-stocks", "", "", "", ""), o)

DoBuyStock ==
    /\ ~running
    /\ \E t \in inputs.tickers, q \in inputs.quantities :
          /\ BuyBounded(t)
          /\ \E o \in buy_stock(Disk, t, q) : Ran(Command("buy-stock", t, q, "", ""), o)

DoListPortfolio ==
    /\ ~running
    /\ \E o \in list_portfolio(Disk) : Ran(Command("list-portfolio", "", "", "", ""), o)

DoExit ==
    /\ ~running
    /\ \E o \in run_exit(Disk) : Ran(Command("exit", "", "", "", ""), o)

\* main returns: the process exits and nothing of the invocation is kept
\* but the files
ProcessExit ==
    /\ running
    /\ console.status # "loop"
    /\ running' = FALSE
    /\ pre' = Disk
    /\ cmd' = NoCommand
    /\ result' = Ok
    /\ out' = {}
    /\ console' = ConsoleOff
    /\ UNCHANGED <<users, stocks, state, inputs, bind, procs>>

Next ==
    \/ ProcessExit
    \/ DoInit
    \/ DoLogin
    \/ DoLogout
    \/ DoCreateUser
    \/ DoDeleteUser
    \/ DoEditUser
    \/ DoListUsers
    \/ DoCreateStock
    \/ DoDeleteStock
    \/ DoEditStock
    \/ DoListStocks
    \/ DoBuyStock
    \/ DoListPortfolio
    \/ DoExit

Spec == Init /\ [][Next]_vars

(***************************************************************************)
(* The same invocations on a file system whose writes may fail: init, with *)
(* its writes succeeding, and the commands that save through               *)
(* modify_hashmap                                                          *)
(***************************************************************************)
IoCreateUser ==
    /\ ~running
    /\ \E u \in inputs.names : \E o \in create_user_io(Disk, u) :
          Ran(Command("create-user", u, "", "", ""), o)

IoDeleteUser ==
    /\ ~running
    /\ \E u \in inputs.names, ans \in Answers : \E o \in delete_user_io(Disk, u, ans) :
          Ran(Command("delete-user", u, "", "", ans), o)

IoCreateStock ==
    /\ ~running
    /\ \E t \in inputs.tickers : \E o \in create_stock_io(Disk, t) :
          Ran(Command("create-stock", t, "", "", ""), o)

IoDeleteStock ==
    /\ ~running
    /\ \E t \in inputs.tickers, ans \in Answers : \E o \in delete_stock_io(Disk, t, ans) :
          Ran(Command("delete-stock", t, "", "", ans), o)

NextIO ==
    \/ ProcessExit
    \/ DoInit
    \/ IoCreateUser
    \/ IoDeleteUser
    \/ IoCreateStock
    \/ IoDeleteStock

SpecIO == Init /\ [][NextIO]_vars

(***************************************************************************)
(* Console mode: the invocation `console` reads lines until the loop ends  *)
(***************************************************************************)
InitConsole == Init /\ inputs = UsersAlphabet

\* run: Command::Console => console_mode(config)
ConsoleEnter ==
    /\ ~running
    /\ running' = TRUE
    /\ console' = [ConsoleOff EXCEPT !.status = "loop"]
    /\ pre' = Disk
    /\ cmd' = Command("console", "", "", "", "")
    /\ result' = Ok
    /\ out' = {}
    /\ UNCHANGED <<users, stocks, state, inputs, bind, procs>>

\* the confirmation is read only by the two deletes
ConsoleAnswersFor(config) ==
    IF config.ok /\ config.command \in {"UserC(Delete)", "StockC(Delete)"}
    THEN ConsoleAnswers
    ELSE {""}

ConsoleBuyBounded(config) ==
    (config.ok /\ config.command = "PortfolioC(Buy)") => BuyBounded(config.remainder[1])

\* one line is read and acted upon
ConsoleLine ==
    /\ console.status = "loop"
    /\ \E line \in ConsoleLines :
          LET config == Config_new(console_args(line), ConsoleEnv)
          IN  /\ ConsoleBuyBounded(config)
              /\ \E ans \in ConsoleAnswersFor(config) : \E t \in console_turn(Disk, line, ans) :
                    /\ users' = t.users
                    /\ stocks' = t.stocks
                    /\ state' = t.state
                    /\ result' = t.result
                    /\ out' = t.out
                    /\ pre' = Disk
                    /\ cmd' = IF config.ok
                              THEN Command(Command_fmt(config.command), "", "", "", ans)
                              ELSE NoCommand
                    /\ console' = [status |-> t.status, line |-> line, read |-> TRUE,
                                   bound |-> config.ok, ret |-> t.ret]
    /\ UNCHANGED <<running, inputs, bind, procs>>

NextConsole ==
    \/ ConsoleEnter
    \/ ConsoleLine
    \/ DoExit
    \/ ProcessExit

SpecConsole == InitConsole /\ [][NextConsole]_vars

(***************************************************************************)
(* Console mode on a standard input that ends: the lines to come are fixed *)
(* when the loop is entered, each read takes the first of them, and every  *)
(* read after the last gives the empty line.  The loop is sequential code  *)
(* in a running process, so a turn that can be taken is taken (weak        *)
(* fairness of ScriptLine).                                                *)
(***************************************************************************)
ScriptLines == {"init\n", "cu a\n", "du a\n", "du b\n", "ds X\n", "y\n", "exit\n"}

Scripts == UNION {[1..n -> ScriptLines] : n \in 0..MaxScript}

\* Config::new on each line that can be read, the empty line of the end of
\* input included
ScriptBound ==
    [line \in ScriptLines \cup {""} |-> Config_new(console_args(line), ConsoleEnv)]

\* run: Command::Console => console_mode(config), with `script` on stdin
ScriptEnter ==
    /\ ~running
    /\ running' = TRUE
    /\ \E script \in Scripts :
          console' = [status |-> "loop", stdin |-> script, line |-> "", taken |-> 0,
                      ret |-> Ok, prompts |-> 0]
    /\ pre' = Disk
    /\ cmd' = Command("console", "", "", "", "")
    /\ result' = Ok
    /\ out' = {}
    /\ UNCHANGED <<users, stocks, state, inputs, bind, procs>>

\* one turn of the loop: the prompt is printed, a line is read and acted
\* upon; `taken` is the number of lines the turn took from standard input
\* and `prompts` the parity of the prompts printed
ScriptLine ==
    /\ console.status = "loop"
    /\ LET first == read_line(console.stdin)
           config == ScriptBound[first.line]
           second == IF handler_reads(Disk, config) THEN read_line(first.rest)
                     ELSE [line |-> "", rest |-> first.rest]
       IN  \E t \in console_bound(Disk, config, second.line) :
              /\ users' = t.users
              /\ stocks' = t.stocks
              /\ state' = t.state
              /\ result' = t.result
              /\ out' = t.out
              /\ pre' = Disk
              /\ cmd' = IF config.ok
                        THEN Command(Command_fmt(config.command), "", "", "", second.line)
                        ELSE NoCommand
              /\ console' = [status |-> t.status, stdin |-> second.rest,
                             line |-> first.line,
                             taken |-> IF handler_reads(Disk, config) THEN 2 ELSE 1,
                             ret |-> t.ret, prompts |-> 1 - console.prompts]
    /\ UNCHANGED <<running, inputs, bind, procs>>

NextScript ==
    \/ ScriptEnter
    \/ ScriptLine
    \/ ProcessExit

SpecScript == InitConsole /\ [][NextScript]_vars /\ WF_vars(ScriptLine)

(***************************************************************************)
(* Argument binding: main gives the process arguments to Config::new; a    *)
(* bound command is displayed and its name parsed again                    *)
(***************************************************************************)
InitBind == Init /\ inputs = UsersAlphabet

\* an invocation binds its arguments once
BindArgs ==
    /\ bind = NoBinding
    /\ \E args \in ArgLists, env \in Environments :
          bind' = [args |-> args, env |-> env,
                   parsed |-> IF Len(args) >= 2 THEN Command_new(args[2]) ELSE CommandInvalid,
                   config |-> Config_new(args, env),
                   shown |-> "", reparsed |-> CommandInvalid]
    /\ UNCHANGED <<users, stocks, state, pre, cmd, result, out, running, inputs, console, procs>>

ShowCommand ==
    /\ bind.config.ok
    /\ bind.shown = ""
    /\ bind' = [bind EXCEPT !.shown = Command_fmt(bind.config.command),
                            !.reparsed = Command_new(Command_fmt(bind.config.command))]
    /\ UNCHANGED <<users, stocks, state, pre, cmd, result, out, running, inputs, console, procs>>

NextBind ==
    \/ BindArgs
    \/ ShowCommand

SpecBind == InitBind /\ [][NextBind]_vars

(***************************************************************************)
(* Concurrent invocations: two processes run create-user against the same  *)
(* configuration directory; each reads the user map, changes it in memory  *)
(* and saves it, and the steps of the two interleave freely.               *)
(***************************************************************************)
Procs == {1, 2}
RaceNames == {"a", "b"}
Idle == [pc |-> "idle", username |-> "", hashmap |-> EmptyMap, result |-> Ok, latest |-> FALSE]

\* the files as `init` leaves them, no process started
InitRace ==
    /\ users = Some(EmptyMap)
    /\ stocks = Some(EmptyMap)
    /\ state = Some(LoggedOut)
    /\ pre = [users |-> None, stocks |-> None, state |-> None]
    /\ cmd = NoCommand
    /\ result = Ok
    /\ out = {}
    /\ running = FALSE
    /\ inputs = UsersAlphabet
    /\ bind = NoBinding
    /\ console = ConsoleOff
    /\ procs = [p \in Procs |-> Idle]

\* process p starts create-user u and gets as far as the save
RaceLoad(p) ==
    /\ procs[p].pc = "idle"
    /\ \E u \in RaceNames :
          LET l == modify_hashmap_load(users, UserMapPath, u)
          IN  procs' = [procs EXCEPT ![p] =
                  IF l.result = Ok
                  THEN [pc |-> "loaded", username |-> u, hashmap |-> l.map,
                        result |-> Ok, latest |-> FALSE]
                  ELSE [pc |-> "done", username |-> u, hashmap |-> EmptyMap,
                        result |-> l.result, latest |-> FALSE]]
    /\ UNCHANGED <<users, stocks, state, pre, cmd, result, out, running, inputs, bind, console>>

\* process p saves its map and reports success
RaceSave(p) ==
    /\ procs[p].pc = "loaded"
    /\ users' = modify_hashmap_save(users, procs[p].hashmap)
    /\ procs' = [q \in Procs |->
                   IF q = p THEN [procs[p] EXCEPT !.pc = "done", !.latest = TRUE]
                   ELSE [procs[q] EXCEPT !.latest = FALSE]]
    /\ UNCHANGED <<stocks, state, pre, cmd, result, out, running, inputs, bind, console>>

\* process p exits
RaceExit(p) ==
    /\ procs[p].pc = "done"
    /\ procs' = [procs EXCEPT ![p] = Idle]
    /\ UNCHANGED <<users, stocks, state, pre, cmd, result, out, running, inputs, bind, console>>

NextRace ==
    \/ \E p \in Procs : RaceLoad(p)
    \/ \E p \in Procs : RaceSave(p)
    \/ \E p \in Procs : RaceExit(p)

SpecRace == InitRace /\ [][NextRace]_vars

(***************************************************************************)
(* Concurrent deletes: two processes run delete-user or delete-stock       *)
(* against the same configuration directory.  A process checks that the    *)
(* key exists, waits for the answer typed at its prompt, and only then     *)
(* reads the map again to remove the key; the other process may run in     *)
(* between.                                                                *)
(***************************************************************************)
Stores == {"users", "stocks"}
StorePath(store) == IF store = "users" THEN UserMapPath ELSE StockMapPath
StoreFile(store) == IF store = "users" THEN users ELSE stocks
StoreKeys(store) == IF store = "users" THEN {"a", "b"} ELSE {"X"}

\* vanished: another process has removed the key since this one's check
NotDeleting ==
    [pc |-> "idle", store |-> "", key |-> "", result |-> Ok, vanished |-> FALSE]

\* the files after init, create-user a, create-user b and create-stock X
InitRaceDelete ==
    /\ users = Some([u \in {"a", "b"} |-> User_new_from_username(u)])
    /\ stocks = Some([t \in {"X"} |-> Stock_new_from_ticker(t)])
    /\ state = Some(LoggedOut)
    /\ pre = [users |-> None, stocks |-> None, state |-> None]
    /\ cmd = NoCommand
    /\ result = Ok
    /\ out = {}
    /\ running = FALSE
    /\ inputs = UsersAlphabet
    /\ bind = NoBinding
    /\ console = ConsoleOff
    /\ procs = [p \in Procs |-> NotDeleting]

\* process p starts a delete and gets as far as its prompt, or fails
DeleteCheck(p) ==
    /\ procs[p].pc = "idle"
    /\ \E store \in Stores : \E key \in StoreKeys(store) :
          LET r == delete_check(StoreFile(store), StorePath(store), key)
          IN  procs' = [procs EXCEPT ![p] =
                  [pc |-> IF r = Ok THEN "asked" ELSE "done", store |-> store,
                   key |-> key, result |-> r, vanished |-> FALSE]]
    /\ UNCHANGED <<users, stocks, state, pre, cmd, result, out, running, inputs, bind, console>>

\* process p reads the answer and acts on it
DeleteAnswer(p) ==
    /\ procs[p].pc = "asked"
    /\ \E ans \in ConsoleAnswers :
          LET me == procs[p]
              a == delete_answered(StoreFile(me.store), StorePath(me.store), me.key, ans)
              removed == a.result = Ok /\ a.file # StoreFile(me.store)
          IN  /\ users' = IF me.store = "users" THEN a.file ELSE users
              /\ stocks' = IF me.store = "stocks" THEN a.file ELSE stocks
              /\ procs' = [q \in Procs |->
                    IF q = p THEN [me EXCEPT !.pc = "done", !.result = a.result]
                    ELSE IF removed /\ procs[q].pc = "asked"
                            /\ procs[q].store = me.store /\ procs[q].key = me.key
                    THEN [procs[q] EXCEPT !.vanished = TRUE]
                    ELSE procs[q]]
    /\ UNCHANGED <<state, pre, cmd, result, out, running, inputs, bind, console>>

\* process p exits
DeleteExit(p) ==
    /\ procs[p].pc = "done"
    /\ procs' = [procs EXCEPT ![p] = NotDeleting]
    /\ UNCHANGED <<users, stocks, state, pre, cmd, result, out, running, inputs, bind, console>>

NextRaceDelete ==
    \/ \E p \in Procs : DeleteCheck(p)
    \/ \E p \in Procs : DeleteAnswer(p)
    \/ \E p \in Procs : DeleteExit(p)

SpecRaceDelete == InitRaceDelete /\ [][NextRaceDelete]_vars

(***************************************************************************)
(* Vocabulary of the properties                                            *)
(***************************************************************************)
\* the last invocation ran command op
Did(op) == running /\ cmd.op = op
InvalidInput == Err("InvalidInputError", "")

\* the user State.JSON names, None when there is no file or nobody is logged in
SessionUserOf(stfile) == IF stfile.some THEN stfile.val.current_user ELSE None
KeysOf(file) == IF file.some THEN DOMAIN file.val ELSE {}

\* the portfolio of user u in a user map file, as a map (empty when absent)
HoldingsOf(file, u) ==
    IF file.some /\ contains_key(file.val, u) /\ file.val[u].portfolio.some
    THEN file.val[u].portfolio.val
    ELSE EmptyMap

\* the argument is the decimal numeral of an integer that is zero or negative
IsNonPositiveNumeral(s) ==
    \/ ParseU32(s) = Some(U32Zero)
    \/ /\ Len(s) > 1
       /\ Char(s, 1) = "-"
       /\ ParseU32Digits(SubSeq(s, 2, Len(s)), U32Zero).some

\* a buy-stock by a logged-in, existing user of an existing stock
BuyByLoggedInUser ==
    /\ Did("buy-stock")
    /\ SessionUserOf(pre.state).some
    /\ SessionUserOf(pre.state).val \in KeysOf(pre.users)
    /\ cmd.a0 \in KeysOf(pre.stocks)

(***************************************************************************)
(* C1: if user a is the session user and edit-user sets a's username to b  *)
(* (b # a), the persisted session afterwards names b, an existing user.    *)
(* The code compares the session user with the NEW name, so this fails.    *)
(***************************************************************************)
C1_RenameOfSessionUser ==
    /\ Did("edit-user")
    /\ result = Ok
    /\ User_get_property(cmd.a1) = "username"
    /\ cmd.a2 # cmd.a0
    /\ SessionUserOf(pre.state) = Some(cmd.a0)

C1_SessionFollowsRename ==
    C1_RenameOfSessionUser =>
        /\ SessionUserOf(state) = Some(cmd.a2)
        /\ cmd.a2 \in KeysOf(users)

(***************************************************************************)
(* C2: a buy-stock by a logged-in user with a zero or negative quantity    *)
(* fails with InvalidInput and leaves the user map unchanged, whether or   *)
(* not the ticker is already held.  The code stores a holding of quantity  *)
(* 0 on a first purchase and answers a negative quantity with a parse      *)
(* error, so this fails.                                                   *)
(***************************************************************************)
C2_NonPositiveBuyRejected ==
    (BuyByLoggedInUser /\ IsNonPositiveNumeral(cmd.a1)) =>
        /\ result = InvalidInput
        /\ users = pre.users

(***************************************************************************)
(* C3: every StockUnit of every portfolio has a quantity above zero.       *)
(* Fails: a first purchase of quantity 0 is stored.                        *)
(***************************************************************************)
C3_QuantitiesPositive ==
    \A u \in KeysOf(users) : \A t \in DOMAIN HoldingsOf(users, u) :
        U32Positive(HoldingsOf(users, u)[t].quantity)

(***************************************************************************)
(* C4: whenever State.JSON names a current user, that name is a key of     *)
(* UserMap.JSON.  Fails: delete-user of the logged-in user leaves the      *)
(* session naming it.                                                      *)
(***************************************************************************)
C4_SessionUserExists ==
    SessionUserOf(state).some => SessionUserOf(state).val \in KeysOf(users)

(***************************************************************************)
(* C5: in every State.JSON the program writes, current_user is set if and  *)
(* only if logged_in is true.                                              *)
(***************************************************************************)
C5_CurrentUserIffLoggedIn ==
    state.some => (state.val.current_user.some <=> state.val.logged_in)

\* edit-user has written the session through State::set_user
C5_Witness ==
    /\ Did("edit-user")
    /\ result = Ok
    /\ User_get_property(cmd.a1) = "username"
    /\ SessionUserOf(pre.state) = Some(cmd.a2)
    /\ state.val.logged_in

(***************************************************************************)
(* C6: a successful buy-stock of a strictly positive quantity q of ticker  *)
(* t, the total within 32 bits, leaves the buyer with one entry for t      *)
(* whose quantity is the former quantity (0 when t was not held) plus q:   *)
(* purchases accumulate, so after q1..qn the entry holds q1+...+qn.        *)
(***************************************************************************)
C6_Buyer == SessionUserOf(pre.state).val
C6_Before ==
    IF contains_key(HoldingsOf(pre.users, C6_Buyer), cmd.a0)
    THEN HoldingsOf(pre.users, C6_Buyer)[cmd.a0].quantity
    ELSE U32Zero
C6_Bought == ParseU32(cmd.a1).val

C6_PositiveBuy ==
    /\ BuyByLoggedInUser
    /\ result = Ok
    /\ U32Positive(C6_Bought)
    /\ ~U32Overflows(C6_Before, C6_Bought)

C6_BuysAccumulate ==
    C6_PositiveBuy =>
        /\ contains_key(HoldingsOf(users, C6_Buyer), cmd.a0)
        /\ HoldingsOf(users, C6_Buyer)[cmd.a0].quantity = U32WideAdd(C6_Before, C6_Bought)
        /\ DOMAIN HoldingsOf(users, C6_Buyer)
              = DOMAIN HoldingsOf(pre.users, C6_Buyer) \cup {cmd.a0}

\* a further purchase of a ticker by a user who also holds another ticker
C6_Witness ==
    /\ C6_PositiveBuy
    /\ C6_Before = U32Small(2)
    /\ C6_Bought = U32Small(2)
    /\ Cardinality(DOMAIN HoldingsOf(pre.users, C6_Buyer)) = 2

(***************************************************************************)
(* C7: edit-user renaming existing user a to a name b that is not a key    *)
(* removes key a and inserts key b; the record under b has username b and  *)
(* a's former first name, last name, middle initial and portfolio; every   *)
(* other entry is unchanged.                                               *)
(***************************************************************************)
C7_RenameToNewKey ==
    /\ Did("edit-user")
    /\ User_get_property(cmd.a1) = "username"
    /\ cmd.a0 \in KeysOf(pre.users)
    /\ cmd.a2 \notin KeysOf(pre.users)

C7_RenameMovesRecord ==
    C7_RenameToNewKey =>
        /\ result = Ok
        /\ KeysOf(users) = (KeysOf(pre.users) \ {cmd.a0}) \cup {cmd.a2}
        /\ users.val[cmd.a2].username = cmd.a2
        /\ users.val[cmd.a2].first_name = pre.users.val[cmd.a0].first_name
        /\ users.val[cmd.a2].last_name = pre.users.val[cmd.a0].last_name
        /\ users.val[cmd.a2].middle_initial = pre.users.val[cmd.a0].middle_initial
        /\ users.val[cmd.a2].portfolio = pre.users.val[cmd.a0].portfolio
        /\ \A k \in KeysOf(pre.users) \ {cmd.a0} : users.val[k] = pre.users.val[k]

\* the renamed user has an edited first name and a holding, and another
\* user is in the map
C7_Witness ==
    /\ C7_RenameToNewKey
    /\ pre.users.val[cmd.a0].first_name = "v"
    /\ pre.users.val[cmd.a0].portfolio.some
    /\ KeysOf(pre.users) \ {cmd.a0} # {}

(***************************************************************************)
(* C8: a command that returns InsertConflict, KeyNotFound, InvalidInput,   *)
(* ParseError, NoActiveUser or InvalidUser leaves UserMap.JSON and         *)
(* StockMap.JSON exactly as they were.                                     *)
(***************************************************************************)
NonIOErrors ==
    {"HashMapInsertError", "HashMapKeyNotFoundError", "InvalidInputError",
     "InputParseError", "StateNoUserError", "StateInvalidUserError"}

C8_FailedCommandWritesNoMap ==
    (running /\ result.kind \in NonIOErrors) =>
        /\ users = pre.users
        /\ stocks = pre.stocks

\* delete-user of an existing user answered with an unrecognized confirmation
C8_Witness ==
    /\ Did("delete-user")
    /\ result = InvalidInput
    /\ cmd.a0 \in KeysOf(pre.users)

(***************************************************************************)
(* C9: create-user (create-stock) with a key already in the map fails with *)
(* InsertConflict carrying the key and leaves the map, and so the existing *)
(* record, as it was.                                                      *)
(***************************************************************************)
C9_CreateConflict ==
    /\ (/\ Did("create-user")
        /\ cmd.a0 \in KeysOf(pre.users))
       => (result = Err("HashMapInsertError", cmd.a0) /\ users = pre.users)
    /\ (/\ Did("create-stock")
        /\ cmd.a0 \in KeysOf(pre.stocks))
       => (result = Err("HashMapInsertError", cmd.a0) /\ stocks = pre.stocks)

\* create-user on a user with an edited first name and a holding
C9_Witness ==
    /\ Did("create-user")
    /\ cmd.a0 \in KeysOf(pre.users)
    /\ pre.users.val[cmd.a0].first_name = "v"
    /\ pre.users.val[cmd.a0].portfolio.some

(***************************************************************************)
(* C10: create-user u on an existing user map without key u succeeds; the  *)
(* map then has key u with a default record without portfolio, the other   *)
(* entries, the stock map and the session are unchanged; and list-users    *)
(* reads the persisted map, so a following list-users iterates key u.      *)
(***************************************************************************)
C10_CreateNewUser ==
    /\ Did("create-user")
    /\ pre.users.some
    /\ cmd.a0 \notin KeysOf(pre.users)

C10_CreateThenList ==
    /\ C10_CreateNewUser =>
          /\ result = Ok
          /\ KeysOf(users) = KeysOf(pre.users) \cup {cmd.a0}
          /\ users.val[cmd.a0] =
                [username |-> cmd.a0, first_name |-> "first_name",
                 last_name |-> "last_name", middle_initial |-> "middle_initial",
                 portfolio |-> None]
          /\ \A k \in KeysOf(pre.users) : users.val[k] = pre.users.val[k]
          /\ stocks = pre.stocks
          /\ state = pre.state
    /\ (Did("list-users") /\ pre.users.some) =>
          /\ result = Ok
          /\ out = KeysOf(pre.users)
          /\ users = pre.users

\* a user is created next to an existing one while somebody is logged in
C10_Witness ==
    /\ C10_CreateNewUser
    /\ KeysOf(pre.users) # {}
    /\ SessionUserOf(pre.state).some
    /\ KeysOf(pre.stocks) # {}

(***************************************************************************)
(* C11: buy-stock and list-portfolio started while nobody is logged in    *)
(* (State.JSON absent, or holding no current user) fail with NoActiveUser *)
(* and leave UserMap.JSON and StockMap.JSON as they were.                  *)
(***************************************************************************)
C11_LoggedOutSessionCommand ==
    /\ Did("buy-stock") \/ Did("list-portfolio")
    /\ ~SessionUserOf(pre.state).some

C11_SessionGuard ==
    C11_LoggedOutSessionCommand =>
        /\ result = Err("StateNoUserError", "")
        /\ users = pre.users
        /\ stocks = pre.stocks

\* a buy-stock of an existing stock, users in the map, after a logout
C11_Witness ==
    /\ Did("buy-stock")
    /\ pre.state = Some([logged_in |-> FALSE, current_user |-> None])
    /\ cmd.a0 \in KeysOf(pre.stocks)
    /\ KeysOf(pre.users) # {}
    /\ ParseU32(cmd.a1).some

(***************************************************************************)
(* C12: delete-user (delete-stock) of an existing key answered y or yes,   *)
(* in any letter case, returns success, removes exactly that key and       *)
(* leaves every other entry, and the other map, unchanged.                 *)
(***************************************************************************)
C12_Accepted == to_lowercase(trim(cmd.ans)) \in {"y", "yes"}

C12_ConfirmedDeleteRemovesKey ==
    /\ (Did("delete-user") /\ cmd.a0 \in KeysOf(pre.users) /\ C12_Accepted) =>
          /\ result = Ok
          /\ users.some
          /\ KeysOf(users) = KeysOf(pre.users) \ {cmd.a0}
          /\ \A k \in KeysOf(users) : users.val[k] = pre.users.val[k]
          /\ stocks = pre.stocks
    /\ (Did("delete-stock") /\ cmd.a0 \in KeysOf(pre.stocks) /\ C12_Accepted) =>
          /\ result = Ok
          /\ stocks.some
          /\ KeysOf(stocks) = KeysOf(pre.stocks) \ {cmd.a0}
          /\ \A k \in KeysOf(stocks) : stocks.val[k] = pre.stocks.val[k]
          /\ users = pre.users

\* one of two users is deleted on the answer YES
C12_Witness ==
    /\ Did("delete-user")
    /\ cmd.a0 \in KeysOf(pre.users)
    /\ cmd.ans = "YES\n"
    /\ Cardinality(KeysOf(pre.users)) = 2
    /\ result = Ok

(***************************************************************************)
(* C13: delete-user (delete-stock) of an existing key answered with        *)
(* anything but y/yes leaves both maps unchanged; n, no, q and quit, in    *)
(* any letter case, return success and every other answer fails with       *)
(* InvalidInput.                                                           *)
(***************************************************************************)
C13_Declined == to_lowercase(trim(cmd.ans)) \in {"n", "no", "q", "quit"}

C13_DeleteOfExistingKey ==
    \/ Did("delete-user") /\ cmd.a0 \in KeysOf(pre.users)
    \/ Did("delete-stock") /\ cmd.a0 \in KeysOf(pre.stocks)

C13_UnconfirmedDeleteKeepsMap ==
    (C13_DeleteOfExistingKey /\ ~C12_Accepted) =>
        /\ users = pre.users
        /\ stocks = pre.stocks
        /\ result = IF C13_Declined THEN Ok ELSE InvalidInput

\* delete-stock of a stock a user holds, answered with an unrecognized line
C13_Witness ==
    /\ Did("delete-stock")
    /\ cmd.a0 \in KeysOf(pre.stocks)
    /\ cmd.ans = "maybe\n"
    /\ \E u \in KeysOf(pre.users) : cmd.a0 \in DOMAIN HoldingsOf(pre.users, u)
    /\ result = InvalidInput

(***************************************************************************)
(* C14: login with a username that is a key of the user map returns        *)
(* success and persists logged_in = true, current_user = that username,    *)
(* whoever was logged in before; both maps are unchanged.                  *)
(***************************************************************************)
C14_LoginOfExistingUser ==
    /\ Did("login")
    /\ cmd.a0 \in KeysOf(pre.users)

C14_LoginSetsSession ==
    C14_LoginOfExistingUser =>
        /\ result = Ok
        /\ state = Some([logged_in |-> TRUE, current_user |-> Some(cmd.a0)])
        /\ users = pre.users
        /\ stocks = pre.stocks

\* a login while another user is logged in
C14_Witness ==
    /\ C14_LoginOfExistingUser
    /\ SessionUserOf(pre.state).some
    /\ SessionUserOf(pre.state).val # cmd.a0
    /\ result = Ok

(***************************************************************************)
(* C15: login with a username that is not a key of the user map fails      *)
(* with InvalidUser carrying that username and leaves State.JSON, and both *)
(* maps, exactly as they were.                                             *)
(***************************************************************************)
C15_LoginOfUnknownUser ==
    /\ Did("login")
    /\ pre.users.some
    /\ cmd.a0 \notin KeysOf(pre.users)

C15_FailedLoginKeepsSession ==
    C15_LoginOfUnknownUser =>
        /\ result = Err("StateInvalidUserError", cmd.a0)
        /\ state = pre.state
        /\ users = pre.users
        /\ stocks = pre.stocks

\* a failed login while a user is logged in
C15_Witness ==
    /\ C15_LoginOfUnknownUser
    /\ SessionUserOf(pre.state).some
    /\ pre.state.val.logged_in

(***************************************************************************)
(* C16: logout returns success and persists the logged-out defaults from   *)
(* any session state, also when nobody was logged in; a second logout      *)
(* leaves what the first left; both maps are unchanged.                    *)
(***************************************************************************)
C16_AfterLogout(o) == [users |-> o.users, stocks |-> o.stocks, state |-> o.state]

C16_LogoutClearsSession ==
    /\ Did("logout") =>
          /\ result = Ok
          /\ state = Some([logged_in |-> FALSE, current_user |-> None])
          /\ users = pre.users
          /\ stocks = pre.stocks
    /\ \A o1 \in logout(Disk) : \A o2 \in logout(C16_AfterLogout(o1)) : o2 = o1

\* a logout while nobody is logged in
C16_Witness ==
    /\ Did("logout")
    /\ pre.state = Some([logged_in |-> FALSE, current_user |-> None])
    /\ KeysOf(pre.users) # {}

(***************************************************************************)
(* C17: init, from any state, leaves UserMap.JSON an empty map,            *)
(* StockMap.JSON an empty map and State.JSON logged out with no current    *)
(* user.                                                                   *)
(***************************************************************************)
C17_InitResets ==
    Did("init") =>
        /\ result = Ok
        /\ users = Some(EmptyMap)
        /\ stocks = Some(EmptyMap)
        /\ state = Some([logged_in |-> FALSE, current_user |-> None])

\* init while a user with a holding is logged in
C17_Witness ==
    /\ Did("init")
    /\ SessionUserOf(pre.state).some
    /\ DOMAIN HoldingsOf(pre.users, SessionUserOf(pre.state).val) # {}
    /\ KeysOf(pre.stocks) # {}

(***************************************************************************)
(* C18: in every reachable state each key of the user map is the username  *)
(* of its record and each key of the stock map is the ticker of its        *)
(* record.                                                                 *)
(***************************************************************************)
C18_KeysAreNames ==
    /\ \A k \in KeysOf(users) : users.val[k].username = k
    /\ \A k \in KeysOf(stocks) : stocks.val[k].ticker = k

\* a stock has been renamed next to another stock
C18_Witness ==
    /\ Did("edit-stock")
    /\ result = Ok
    /\ Stock_get_property(cmd.a1) = "ticker"
    /\ cmd.a2 # cmd.a0
    /\ Cardinality(KeysOf(pre.stocks)) = 2
    /\ KeysOf(users) # {}

(***************************************************************************)
(* C19: in every reachable state every key of every user's portfolio is    *)
(* the ticker of the Stock held in the StockUnit under that key.           *)
(***************************************************************************)
C19_PortfolioKeysAreTickers ==
    \A u \in KeysOf(users) : \A t \in DOMAIN HoldingsOf(users, u) :
        HoldingsOf(users, u)[t].stock.ticker = t

\* a stock that a user holds has been renamed in the stock map
C19_Witness ==
    /\ Did("edit-stock")
    /\ result = Ok
    /\ Stock_get_property(cmd.a1) = "ticker"
    /\ cmd.a0 \notin KeysOf(stocks)
    /\ \E u \in KeysOf(users) : cmd.a0 \in DOMAIN HoldingsOf(users, u)

(***************************************************************************)
(* C20: when a command has read a store, changed the map and then failed   *)
(* to save it (the file could not be opened for writing, or the write      *)
(* failed part-way), the store file holds its complete previous content.   *)
(* The code truncates the file when it opens it for writing, so a write    *)
(* that fails afterwards leaves an empty or partial document: this fails.  *)
(***************************************************************************)
C20_SaveErrors == {"IOHashMapOpenError", "IOHashMapWriteError"}

\* the store the command saves was read in full and the command ended in an
\* error of the save
C20_SaveFailed ==
    /\ running
    /\ result.kind \in C20_SaveErrors
    /\ \/ cmd.op \in {"create-user", "delete-user"} /\ pre.users.some
       \/ cmd.op \in {"create-stock", "delete-stock"} /\ pre.stocks.some

C20_FailedSaveKeepsFile ==
    C20_SaveFailed =>
        /\ users = pre.users
        /\ stocks = pre.stocks

(***************************************************************************)
(* C25: for a recognized verb and a resolvable configuration directory,    *)
(* Config::new fails with ArgumentsTooFew carrying the command's display   *)
(* name exactly when fewer tokens follow the verb than the command         *)
(* requires (0 for init, console, exit, logout and the lists; 1 for login, *)
(* create and delete; 2 for buy-stock; 3 for the edits); otherwise it      *)
(* succeeds and the remainder is the trailing tokens, in order, surplus    *)
(* tokens included.                                                        *)
(***************************************************************************)
C25_Trailing == SubSeq(bind.args, 3, Len(bind.args))

C25_Required(name) ==
    CASE name \in {"init", "console", "exit", "logout", "list-users", "list-stocks",
                   "list-portfolio"} -> 0
      [] name \in {"login", "create-user", "delete-user", "create-stock", "delete-stock"} -> 1
      [] name = "buy-stock" -> 2
      [] name \in {"edit-user", "edit-stock"} -> 3

C25_RecognizedVerb ==
    /\ Len(bind.args) >= 2
    /\ bind.parsed.ok
    /\ configuration_directory(bind.env).some

C25_TooFewIffBelowCount ==
    C25_RecognizedVerb =>
        LET name == Command_fmt(bind.parsed.command)
        IN  IF Len(C25_Trailing) < C25_Required(name)
            THEN bind.config = ConfigErr(Err("ConfigArgumentsError", name))
            ELSE /\ bind.config.ok
                 /\ bind.config.command = bind.parsed.command
                 /\ bind.config.remainder = C25_Trailing

\* edit-user bound with a surplus token
C25_Witness ==
    /\ C25_RecognizedVerb
    /\ bind.parsed.command = "UserC(Edit)"
    /\ bind.config.ok
    /\ bind.config.remainder = <<"a", "fn", "v", "more">>

(***************************************************************************)
(* C26: Config::new fails with NoCommand when no token follows the program *)
(* name, the empty argument list included, and with CommandInvalid when    *)
(* the verb is not in the command table, whatever follows it.              *)
(***************************************************************************)
C26_NoCommandOrInvalid ==
    /\ (bind # NoBinding /\ Len(bind.args) < 2) =>
          bind.config = ConfigErr(Err("ConfigNoCommandError", ""))
    /\ (Len(bind.args) >= 2 /\ to_lowercase(bind.args[2]) \notin VerbTable) =>
          bind.config = ConfigErr(Err("CommandInvalidError", ""))

\* an unrecognized verb followed by four tokens
C26_Witness ==
    /\ Len(bind.args) = 6
    /\ bind.args[2] = "frobnicate"
    /\ bind.config = ConfigErr(Err("CommandInvalidError", ""))

(***************************************************************************)
(* C27: parsing the display name of a command gives that command again.    *)
(***************************************************************************)
C27_DisplayParses ==
    bind.shown # "" => bind.reparsed = CommandOk(bind.config.command)

\* list-users, bound from an alias in capitals, shown and parsed again
C27_Witness ==
    /\ bind.shown = "list-users"
    /\ bind.args[2] = "LU"
    /\ bind.reparsed.ok

(***************************************************************************)
(* C28: a verb whose lower-case form is a name or an alias of the command  *)
(* table parses to the command its lower-case form parses to; every other  *)
(* string fails with CommandInvalid.                                       *)
(***************************************************************************)
C28_CaseInsensitive ==
    Len(bind.args) >= 2 =>
        LET l == to_lowercase(bind.args[2])
        IN  IF l \in VerbTable
            THEN bind.parsed.ok /\ bind.parsed = Command_new(l)
            ELSE bind.parsed = CommandInvalid

\* a mixed-case verb
C28_Witness ==
    /\ Len(bind.args) >= 2
    /\ bind.args[2] = "CReate-stock"
    /\ bind.parsed = CommandOk("StockC(Create)")

(***************************************************************************)
(* C21: when two concurrent invocations have both saved the user map and   *)
(* reported success, the file is the map of the one that saved last: what  *)
(* that one had read plus its own update.  So when it had read before the  *)
(* other saved, the other's update is lost although both succeeded.        *)
(***************************************************************************)
C21_BothSucceeded(p, q) ==
    /\ p # q
    /\ procs[p].pc = "done" /\ procs[p].result = Ok
    /\ procs[q].pc = "done" /\ procs[q].result = Ok
    /\ procs[q].latest

C21_LastWriterWins ==
    \A p \in DOMAIN procs : \A q \in DOMAIN procs :
        C21_BothSucceeded(p, q) =>
            /\ users = Some(procs[q].hashmap)
            /\ procs[p].username \notin DOMAIN procs[q].hashmap
                  => procs[p].username \notin KeysOf(users)

\* both invocations reported success and the first one's user is not in the file
C21_Witness ==
    \E p \in DOMAIN procs : \E q \in DOMAIN procs :
        /\ C21_BothSucceeded(p, q)
        /\ procs[p].username # procs[q].username
        /\ procs[p].username \notin KeysOf(users)
        /\ procs[q].username \in KeysOf(users)

(***************************************************************************)
(* C22: in console mode, when the handler of a line returns an error, the  *)
(* loop goes on to the next line if the error is a parse error,            *)
(* key-not-found, no-active-user or invalid-session-user, and for every    *)
(* other error the loop ends and console mode returns that error.          *)
(***************************************************************************)
C22_HandlerFailed ==
    /\ console.read
    /\ console.bound
    /\ cmd.op \notin {"console", "exit"}
    /\ result # Ok

C22_OnlyRecoverableErrorsContinue ==
    C22_HandlerFailed =>
        IF result.kind \in {"InputParseError", "HashMapKeyNotFoundError",
                            "StateNoUserError", "StateInvalidUserError"}
        THEN console.status = "loop"
        ELSE console.status = "returned" /\ console.ret = result

\* a duplicate create-user has ended the loop
C22_Witness ==
    /\ C22_HandlerFailed
    /\ result.kind = "HashMapInsertError"
    /\ console.status = "returned"

(***************************************************************************)
(* C23: in console mode a line that cannot be bound (no token, an          *)
(* unrecognized verb, or too few arguments for its verb) leaves the loop   *)
(* running and the three files as they were.                               *)
(***************************************************************************)
C23_Unbindable(line) ==
    LET tokens == split_ascii_whitespace(line)
    IN  \/ Len(tokens) = 0
        \/ to_lowercase(tokens[1]) \notin VerbTable
        \/ Len(tokens) - 1 < C25_Required(Command_fmt(Command_new(tokens[1]).command))

C23_UnboundLineContinues ==
    (console.read /\ C23_Unbindable(console.line)) =>
        /\ console.status = "loop"
        /\ users = pre.users
        /\ stocks = pre.stocks
        /\ state = pre.state

\* edit-user without its arguments, typed while a user exists
C23_Witness ==
    /\ console.read
    /\ console.line = "eu a\n"
    /\ KeysOf(users) # {}
    /\ console.status = "loop"

(***************************************************************************)
(* C24: exit, quit or q read as a line in console mode ends the loop,      *)
(* console mode returns success and no file is changed; the Exit command   *)
(* dispatched by run outside console mode fails with InvalidInput and      *)
(* changes no file.                                                        *)
(***************************************************************************)
C24_ExitLine ==
    /\ console.read
    /\ Len(split_ascii_whitespace(console.line)) > 0
    /\ to_lowercase(split_ascii_whitespace(console.line)[1]) \in {"exit", "quit", "q"}

C24_FilesKept ==
    /\ users = pre.users
    /\ stocks = pre.stocks
    /\ state = pre.state

C24_ExitEndsConsoleOnly ==
    /\ C24_ExitLine =>
          /\ console.status = "returned"
          /\ console.ret = Ok
          /\ C24_FilesKept
    /\ (running /\ console.status = "off" /\ cmd.op = "exit") =>
          /\ result = InvalidInput
          /\ C24_FilesKept

\* quit, with a surplus token, typed while a user exists
C24_Witness ==
    /\ C24_ExitLine
    /\ console.line = "quit now\n"
    /\ KeysOf(users) # {}
    /\ console.ret = Ok

(***************************************************************************)
(* C29: a command that reaches State::init when there is no State.JSON     *)
(* (login, logout, buy-stock, list-portfolio, init, or an edit-user that   *)
(* has saved the user map) leaves a State.JSON, holding the logged-out     *)
(* defaults unless the command itself then logged a user in; and when      *)
(* State.JSON exists, every command but login, logout and init leaves it   *)
(* as it was, so a login lasts until one of those three.                   *)
(***************************************************************************)
C29_ReachesStateInit ==
    \/ Did("login") \/ Did("logout") \/ Did("buy-stock") \/ Did("list-portfolio")
    \/ Did("init")
    \/ Did("edit-user") /\ result = Ok

C30_EditKeepsRecordCount ==
    /\ (Did("edit-user") /\ cmd.a0 \in KeysOf(pre.users)) =>
          Cardinality(KeysOf(users)) = Cardinality(KeysOf(pre.users))
    /\ (Did("edit-stock") /\ cmd.a0 \in KeysOf(pre.stocks)) =>
          Cardinality(KeysOf(stocks)) = Cardinality(KeysOf(pre.stocks))

(***************************************************************************)
(* C34, as the claim states it: a buy-stock by a logged-in user of a       *)
(* ticker that is not in the stock map fails with KeyNotFound for the      *)
(* ticker, whatever the quantity argument.  The code parses the quantity   *)
(* before it reads the stock map, so a quantity that does not parse is     *)
(* reported first: this fails.                                             *)
(***************************************************************************)
C34_LoggedInBuyOfAbsentTicker ==
    /\ Did("buy-stock")
    /\ SessionUserOf(pre.state).some
    /\ pre.stocks.some
    /\ cmd.a0 \notin KeysOf(pre.stocks)

C34_LookupBeforeParse ==
    C34_LoggedInBuyOfAbsentTicker => result = Err("HashMapKeyNotFoundError", cmd.a0)

(***************************************************************************)
(* C34, amended: buy-stock reports the first failing check in the order    *)
(* active session (StateNoUserError), quantity parse (InputParseError),    *)
(* stock lookup (HashMapKeyNotFoundError for the ticker), current user     *)
(* lookup (HashMapKeyNotFoundError for the username); a logged-in buy of   *)
(* an absent ticker with a non-numeric quantity fails with                 *)
(* InputParseError.                                                        *)
(***************************************************************************)
C34_ParseBeforeLookup ==
    (Did("buy-stock") /\ pre.stocks.some /\ pre.users.some) =>
        IF ~SessionUserOf(pre.state).some THEN result = Err("StateNoUserError", "")
        ELSE IF ~ParseU32(cmd.a1).some THEN result.kind = "InputParseError"
        ELSE IF cmd.a0 \notin KeysOf(pre.stocks)
        THEN result = Err("HashMapKeyNotFoundError", cmd.a0)
        ELSE IF SessionUserOf(pre.state).val \notin KeysOf(pre.users)
        THEN result = Err("HashMapKeyNotFoundError", SessionUserOf(pre.state).val)
        ELSE TRUE

\* a logged-in buy of an absent ticker with a quantity that is no numeral
C34_Witness ==
    /\ C34_LoggedInBuyOfAbsentTicker
    /\ pre.users.some
    /\ cmd.a1 = "1x"
    /\ result.kind = "InputParseError"

(***************************************************************************)
(* C35: a confirmed delete-user of the session user leaves the session     *)
(* naming that user; and a buy-stock (of an existing stock, with a         *)
(* quantity that parses) or a list-portfolio run while the session names a *)
(* user who is not in the user map fails with HashMapKeyNotFoundError for  *)
(* that username, not StateNoUserError, and leaves the three files as they *)
(* were.                                                                   *)
(***************************************************************************)
C35_DeletedSessionUser ==
    /\ Did("delete-user")
    /\ result = Ok
    /\ cmd.a0 \in KeysOf(pre.users)
    /\ cmd.a0 \notin KeysOf(users)
    /\ SessionUserOf(pre.state) = Some(cmd.a0)

C35_OrphanSessionCommand ==
    /\ pre.users.some
    /\ SessionUserOf(pre.state).some
    /\ SessionUserOf(pre.state).val \notin KeysOf(pre.users)
    /\ \/ Did("list-portfolio")
       \/ Did("buy-stock") /\ ParseU32(cmd.a1).some /\ cmd.a0 \in KeysOf(pre.stocks)

C36_UserProperties ==
    {"u", "username", "fn", "first-name", "firstname", "ln", "last-name", "lastname",
     "mi", "middle-initial", "middleinitial"}

C36_StockProperties == {"t", "ticker", "cn", "company-name", "companyname", "v", "value"}

C36_Kept == users = pre.users /\ stocks = pre.stocks /\ state = pre.state

C36_FailedEditKeepsRecord ==
    /\ (Did("edit-user") /\ pre.users.some /\ cmd.a0 \notin KeysOf(pre.users)) =>
          result = Err("HashMapKeyNotFoundError", cmd.a0) /\ C36_Kept
    /\ (Did("edit-stock") /\ pre.stocks.some /\ cmd.a0 \notin KeysOf(pre.stocks)) =>
          result = Err("HashMapKeyNotFoundError", cmd.a0) /\ C36_Kept
    /\ (Did("edit-user") /\ cmd.a0 \in KeysOf(pre.users)
          /\ to_lowercase(cmd.a1) \notin C36_UserProperties) =>
          result = InvalidInput /\ C36_Kept
    /\ (Did("edit-stock") /\ cmd.a0 \in KeysOf(pre.stocks)
          /\ to_lowercase(cmd.a1) \notin C36_StockProperties) =>
          result = InvalidInput /\ C36_Kept
    /\ (Did("edit-stock") /\ cmd.a0 \in KeysOf(pre.stocks)
          /\ to_lowercase(cmd.a1) \in {"v", "value"} /\ ~ParseF64(cmd.a2).some) =>
          result.kind = "InputParseError" /\ C36_Kept

\* an edit-stock of the value of an existing stock with "abc"
C36_Witness ==
    /\ Did("edit-stock")
    /\ cmd.a0 \in KeysOf(pre.stocks)
    /\ cmd.a1 = "value"
    /\ cmd.a2 = "abc"
    /\ result.kind = "InputParseError"

(***************************************************************************)
(* C37: edit-stock and delete-stock leave the user map as it was, so a     *)
(* holding keeps the Stock copied at its first purchase; and a further     *)
(* purchase of a ticker already held adds to the quantity and keeps that   *)
(* copy, also when the stock map has another record for the ticker by      *)
(* then.                                                                   *)
(***************************************************************************)
C37_FurtherPurchase ==
    /\ BuyByLoggedInUser
    /\ result = Ok
    /\ contains_key(HoldingsOf(pre.users, C6_Buyer), cmd.a0)

C37_HoldingKeepsSnapshot ==
    /\ (Did("edit-stock") \/ Did("delete-stock")) => users = pre.users
    /\ C37_FurtherPurchase =>
          /\ contains_key(HoldingsOf(users, C6_Buyer), cmd.a0)
          /\ HoldingsOf(users, C6_Buyer)[cmd.a0].stock
                = HoldingsOf(pre.users, C6_Buyer)[cmd.a0].stock
          /\ HoldingsOf(users, C6_Buyer)[cmd.a0].quantity
                = U32WrappingAdd(C6_Before, C6_Bought)

\* a further purchase after an edit-stock has changed the stock's record
C37_Witness ==
    /\ C37_FurtherPurchase
    /\ pre.stocks.val[cmd.a0] # HoldingsOf(pre.users, C6_Buyer)[cmd.a0].stock
    /\ U32Positive(C6_Bought)

(***************************************************************************)
(* C38: a successful buy-stock leaves the stock map and the session as     *)
(* they were, keeps the keys of the user map and every other user's        *)
(* record, and changes of the buyer's record the portfolio only, and of    *)
(* the portfolio only the entry of the ticker bought.                      *)
(***************************************************************************)
C38_SuccessfulBuy == BuyByLoggedInUser /\ result = Ok

C38_BuyChangesOneHolding ==
    C38_SuccessfulBuy =>
        /\ stocks = pre.stocks
        /\ state = pre.state
        /\ KeysOf(users) = KeysOf(pre.users)
        /\ \A u \in KeysOf(pre.users) \ {C6_Buyer} : users.val[u] = pre.users.val[u]
        /\ \A f \in {"username", "first_name", "last_name", "middle_initial"} :
              users.val[C6_Buyer][f] = pre.users.val[C6_Buyer][f]
        /\ \A t \in (DOMAIN HoldingsOf(pre.users, C6_Buyer)) \ {cmd.a0} :
              /\ contains_key(HoldingsOf(users, C6_Buyer), t)
              /\ HoldingsOf(users, C6_Buyer)[t] = HoldingsOf(pre.users, C6_Buyer)[t]

\* a first purchase of a ticker by a user who holds another ticker
C38_Witness ==
    /\ C38_SuccessfulBuy
    /\ ~contains_key(HoldingsOf(pre.users, C6_Buyer), cmd.a0)
    /\ DOMAIN HoldingsOf(pre.users, C6_Buyer) # {}
    /\ users # pre.users

(***************************************************************************)
(* C39: when the quantity held p and the quantity bought q have a sum past *)
(* 32 bits, buy-stock does not leave the holding with p + q modulo 2^32.   *)
(* `self.quantity += quantity` wraps in a build without overflow checks,   *)
(* and the wrapped quantity is saved: this fails.                          *)
(***************************************************************************)
C39_OverflowingBuy ==
    /\ BuyByLoggedInUser
    /\ ParseU32(cmd.a1).some
    /\ contains_key(HoldingsOf(pre.users, C6_Buyer), cmd.a0)
    /\ U32Overflows(C6_Before, C6_Bought)

C39_NoWrappedQuantity ==
    C39_OverflowingBuy =>
        HoldingsOf(users, C6_Buyer)[cmd.a0].quantity # U32WrappingAdd(C6_Before, C6_Bought)

(***************************************************************************)
(* C32: a delete-user or delete-stock ends with HashMapRemoveError only    *)
(* when another invocation has removed the key between this one's check    *)
(* and its removal; an invocation that runs with no other in between never *)
(* ends with it.                                                           *)
(***************************************************************************)
C32_RemoveFailed(p) == procs[p].pc = "done" /\ procs[p].result.kind = "HashMapRemoveError"

C32_RemoveFailedOnlyByRace ==
    \A p \in Procs : C32_RemoveFailed(p) => procs[p].vanished

\* both processes were at their prompts for the same key; one has removed
\* it and the other's removal has failed
C32_Witness ==
    \E p \in Procs : \E q \in Procs \ {p} :
        /\ C32_RemoveFailed(p)
        /\ procs[q].pc = "done"
        /\ procs[q].result = Ok
        /\ procs[q].key = procs[p].key
        /\ procs[p].key \notin KeysOf(StoreFile(procs[p].store))

\* the same for the invocations that run one at a time
C32_AloneNeverRemoveFailed ==
    (Did("delete-user") \/ Did("delete-stock")) => result.kind # "HashMapRemoveError"

(***************************************************************************)
(* C31: once the console loop has read the last line of its standard input *)
(* without having been told to exit, it ends.  At the end of input         *)
(* read_line gives the empty line, which binds to no command, and the loop *)
(* goes on to the next read, for ever: this fails.                         *)
(***************************************************************************)
C31_AtEndOfInput == console.status = "loop" /\ console.stdin = <<>>

C31_EndOfInputEndsConsole == C31_AtEndOfInput ~> (console.status # "loop")

(***************************************************************************)
(* C33: a delete-user (delete-stock) typed in console mode for a key that  *)
(* is not in the map fails with HashMapKeyNotFoundError, changes no file,  *)
(* and takes from standard input only the line it was typed on: the loop   *)
(* goes on and reads the next line as a command.                           *)
(***************************************************************************)
C33_Typed == ScriptBound[console.line]

C33_DeleteOfAbsentKey ==
    /\ console.status \in {"loop", "returned"}
    /\ console.taken > 0
    /\ C33_Typed.ok
    /\ \/ /\ C33_Typed.command = "UserC(Delete)"
          /\ pre.users.some
          /\ C33_Typed.remainder[1] \notin KeysOf(pre.users)
       \/ /\ C33_Typed.command = "StockC(Delete)"
          /\ pre.stocks.some
          /\ C33_Typed.remainder[1] \notin KeysOf(pre.stocks)

C33_AbsentKeyReadsNoAnswer ==
    C33_DeleteOfAbsentKey =>
        /\ result = Err("HashMapKeyNotFoundError", C33_Typed.remainder[1])
        /\ console.taken = 1
        /\ console.status = "loop"
        /\ users = pre.users /\ stocks = pre.stocks /\ state = pre.state

\* the line typed after the delete, an answer had one been asked for, is
\* still to be read
C33_Witness ==
    /\ C33_DeleteOfAbsentKey
    /\ console.line = "du b\n"
    /\ console.stdin # <<>>
    /\ Head(console.stdin) = "y\n"

====
